---- MODULE Spec2Model ----
(***************************************************************************)
(* Model of the MedQuiz agent coordinator                                  *)
(* (langflow-integration/mcp-servers/medquiz-agent-coordinator.py):        *)
(* the quality-gate evaluator, the sequential workflow, the phased         *)
(* parallel workflow and the feedback loop.                                *)
(*                                                                         *)
(* Python values are records [tag, n, d]:                                  *)
(*   tag  "none" | "bool" | "num" | "str" | "list" | "dict" | "raise"      *)
(*   n    the number (num), 0/1 (bool), the length (str, list, dict)       *)
(*   d    the mapping of a dict (the empty function for everything else)   *)
(* so that truthiness, ==, >= and .get() behave as in Python, including    *)
(* the TypeError / AttributeError they raise on values of the wrong type.  *)
(* Strings are kept as empty / non-empty and lists by their length: the    *)
(* coordinator never inspects more of them.  start_time, end_time and the   *)
(* elapsed time of a worker are kept as one fixed value each.              *)
(***************************************************************************)
EXTENDS Integers, FiniteSets, Sequences, TLC

VARIABLES
    pc,                          \* position of the running workflow coroutine
    workflow_results,            \* the run record being built / returned
    quality_gates,               \* self.quality_gates (shared QualityGate objects)
    medical_compliance_required, \* self.medical_compliance_required
    tasks,                       \* one _execute_agent call per agent type
    idx,                         \* position of the sequential for-loop
    previous_agent_output,       \* local of execute_sequential_workflow
    coordination_context,        \* local of execute_parallel_workflow
    integration_context,         \* local of execute_parallel_workflow
    dispatch_log,                \* history: agent types in dispatch order
    evaluated,                   \* history: outcome of each gate evaluation of the run
    eval_in,                     \* input of a stand-alone gate evaluation
    eval_out,                    \* its outcome
    feedback_analysis,           \* what the last execute_feedback_loop returned
    earlier_record               \* the record an earlier run returned to its caller

vars == <<pc, workflow_results, quality_gates, medical_compliance_required,
          tasks, idx, previous_agent_output, coordination_context,
          integration_context, dispatch_log, evaluated, eval_in, eval_out,
          feedback_analysis, earlier_record>>

---------------------------------------------------------------------------
(* Python values *)

EmptyDict == [k \in {} |-> 0]

PyNone == [tag |-> "none", n |-> 0, d |-> EmptyDict]

PyBool(b) == [tag |-> "bool", n |-> IF b THEN 1 ELSE 0, d |-> EmptyDict]

PyNum(x) == [tag |-> "num", n |-> x, d |-> EmptyDict]

PyStr(len) == [tag |-> "str", n |-> len, d |-> EmptyDict]

PyList(len) == [tag |-> "list", n |-> len, d |-> EmptyDict]

PyDict(f) == [tag |-> "dict", n |-> Cardinality(DOMAIN f), d |-> f]

\* the evaluation raised (TypeError, AttributeError) instead of yielding a value
PyRaise == [tag |-> "raise", n |-> 0, d |-> EmptyDict]

\* a local variable that was never assigned
Unbound == [tag |-> "unbound", n |-> 0, d |-> EmptyDict]

IsRaise(v) == v.tag = "raise"

\* bool(v)
Truthy(v) == v.tag \notin {"none", "raise", "unbound"} /\ v.n # 0

\* f[k] = v on a mapping
Upd(f, k, v) == [x \in (DOMAIN f) \cup {k} |-> IF x = k THEN v ELSE f[x]]

\* del f[k]
Del(f, k) == [x \in (DOMAIN f) \ {k} |-> f[x]]

\* PyGet with an absent key read as True
PyGet_AbsentIsTrue(v, k, default) ==
    IF IsRaise(v) THEN PyRaise
    ELSE IF v.tag # "dict" THEN PyRaise
    ELSE IF k \in DOMAIN v.d THEN v.d[k] ELSE PyBool(TRUE)

\* v.get(k, default): AttributeError when v is not a mapping
PyGet(v, k, default) ==
    IF IsRaise(v) THEN PyRaise
    ELSE IF v.tag # "dict" THEN PyRaise
    ELSE IF k \in DOMAIN v.d THEN v.d[k] ELSE default

\* v >= m for a number m: TypeError unless v is a number (bool is a number)
PyGe(v, m) ==
    IF IsRaise(v) THEN PyRaise
    ELSE IF v.tag \in {"num", "bool"} THEN PyBool(v.n >= m)
    ELSE PyRaise

\* v == m for a number m: never raises
PyEq(v, m) ==
    IF IsRaise(v) THEN PyRaise
    ELSE PyBool(v.tag \in {"num", "bool"} /\ v.n = m)

\* a and b: a when a is falsy, b otherwise (b is not evaluated when a is falsy)
PyAnd(a, b) ==
    IF IsRaise(a) THEN PyRaise
    ELSE IF Truthy(a) THEN b ELSE a

---------------------------------------------------------------------------
(* Agent types and quality gates *)

AgentType == {"code-quality", "ui-ux", "performance", "testing",
              "security", "devops", "architecture"}

\* execution_order with its first two agent types exchanged
execution_order_Swapped ==
    <<"ui-ux", "code-quality", "performance", "testing",
      "security", "devops", "architecture">>

execution_order == <<"code-quality", "ui-ux", "performance", "testing",
                     "security", "devops", "architecture">>

independent_agents == <<"code-quality", "ui-ux", "performance">>

coordinated_agents == <<"testing", "security", "devops">>

integration_agents == <<"architecture">>

\* required_score with the testing gate asking for 95
required_score_Strict ==
    [a \in AgentType |->
        CASE a = "code-quality" -> 90
          [] a = "ui-ux"        -> 90
          [] a = "performance"  -> 85
          [] a = "testing"      -> 95
          [] a = "security"     -> 95
          [] a = "devops"       -> 90
          [] a = "architecture" -> 90]

required_score ==
    [a \in AgentType |->
        CASE a = "code-quality" -> 90
          [] a = "ui-ux"        -> 90
          [] a = "performance"  -> 85
          [] a = "testing"      -> 85
          [] a = "security"     -> 95
          [] a = "devops"       -> 90
          [] a = "architecture" -> 90]

gate_name ==
    [a \in AgentType |->
        CASE a = "code-quality" -> "Code Quality Gate"
          [] a = "ui-ux"        -> "Medical UX Quality Gate"
          [] a = "performance"  -> "Performance Quality Gate"
          [] a = "testing"      -> "Medical Testing Quality Gate"
          [] a = "security"     -> "Medical Security & HIPAA Gate"
          [] a = "devops"       -> "Medical Platform DevOps Gate"
          [] a = "architecture" -> "Medical Education Architecture Gate"]

\* the QualityGate objects built by __init__; passed defaults to False
initialize_quality_gates ==
    [a \in AgentType |->
        [gate_name |-> gate_name[a],
         required_score |-> required_score[a],
         passed |-> PyBool(FALSE)]]

---------------------------------------------------------------------------
(* _validate_quality_gate *)

\* score_passed = agent_result.quality_score >= gate.required_score
ScorePassed(agent_type, agent_result) ==
    PyGe(agent_result.quality_score, required_score[agent_type])

\* MedicalPassed with the compliance-required flag ignored
MedicalPassed_IgnoreFlag(agent_result, required) ==
    agent_result.medical_compliance

\* medical_passed = agent_result.medical_compliance
\*                  if self.medical_compliance_required else True
MedicalPassed(agent_result, required) ==
    IF required THEN agent_result.medical_compliance ELSE PyBool(TRUE)

\* the agent-specific branch of the if/elif chain over agent_result.output
CriteriaPassed(agent_type, agent_result) ==
    LET out == agent_result.output
        Sub(k) == PyGet(out, k, PyDict(EmptyDict))
    IN CASE agent_type = "code-quality" ->
              PyAnd(PyGet(out, "typescript_fixes", PyNone),
                    PyGet(out, "build_optimization", PyNone))
         [] agent_type = "ui-ux" ->
              PyAnd(PyGe(PyGet(out, "accessibility_score", PyNum(0)), 90),
                    PyGet(out, "medical_design_features", PyNone))
         [] agent_type = "performance" ->
              PyAnd(PyGet(Sub("pwa_implementation"), "offline_quizzes", PyNone),
                    PyGet(out, "core_web_vitals", PyNone))
         [] agent_type = "testing" ->
              PyAnd(PyGe(PyGet(Sub("test_coverage"), "coverage_percentage",
                               PyNum(0)), 85),
                    PyGet(Sub("medical_validation"), "usmle_compliance", PyNone))
         [] agent_type = "security" ->
              PyAnd(PyGet(Sub("hipaa_compliance"),
                          "educational_data_protection", PyNone),
                    PyEq(PyGet(Sub("security_assessment"),
                               "vulnerabilities_found", PyNum(999)), 0))
         [] agent_type = "devops" ->
              PyAnd(PyGet(Sub("monitoring_setup"), "uptime_monitoring", PyNone),
                    PyGet(Sub("deployment_optimization"), "zero_downtime",
                          PyNone))
         [] agent_type = "architecture" ->
              PyAnd(PyGet(Sub("architectural_assessment"),
                          "medical_domain_suitability", PyNone),
                    PyGet(Sub("enterprise_readiness"), "scalability", PyNone))

\* the value assigned to gate.passed, or PyRaise when one of the three
\* checks raised before the assignment (all three are computed first, the
\* and-chain only combines them)
GatePassed(agent_type, agent_result, required) ==
    LET score_passed == ScorePassed(agent_type, agent_result)
        medical_passed == MedicalPassed(agent_result, required)
        criteria_passed == CriteriaPassed(agent_type, agent_result)
    IN IF IsRaise(score_passed) \/ IsRaise(criteria_passed) THEN PyRaise
       ELSE PyAnd(PyAnd(score_passed, medical_passed), criteria_passed)

\* gate = self.quality_gates[agent_type] (KeyError when no gate is registered
\* for the agent type), then the three checks
ValidateOutcome(gates, agent_type, agent_result, required) ==
    IF agent_type \notin DOMAIN gates THEN PyRaise
    ELSE GatePassed(agent_type, agent_result, required)

\* AssignPassed keeping a passed that an earlier evaluation left truthy
AssignPassed_Sticky(gate, passed) ==
    [gate EXCEPT !.passed = IF Truthy(@) THEN @ ELSE passed]

\* gate.passed = score_passed and medical_passed and criteria_passed, on the
\* QualityGate object shared by all evaluations for the agent type
AssignPassed(gate, passed) == [gate EXCEPT !.passed = passed]

\* a field that is not a copy: it is read through the QualityGate object of
\* the coordinator each time it is looked at
SharedField == [tag |-> "shared", n |-> 0, d |-> EmptyDict]

\* the gate object itself stored in place of asdict(gate_result)
GateSnapshot_Shared(gate) ==
    [gate_name |-> gate.gate_name,
     required_score |-> gate.required_score,
     passed |-> SharedField]

\* asdict(gate_result): a copy of the fields of the gate object
GateSnapshot(gate) ==
    [gate_name |-> gate.gate_name,
     required_score |-> gate.required_score,
     passed |-> gate.passed]

---------------------------------------------------------------------------
(* _execute_agent and the workers *)

\* AgentResult left with the status of a worker that is still running
AgentResult_InProgress(agent_type, output) ==
    LET out == PyDict(output)
    IN [agent_type |-> agent_type,
        status |-> "in_progress",
        output |-> out,
        quality_score |-> PyGet(out, "quality_score", PyNum(0)),
        medical_compliance |-> PyGet(out, "medical_compliance", PyBool(TRUE)),
        execution_time |-> PyNum(1),
        recommendations |-> PyGet(out, "recommendations", PyList(0)),
        next_agent_inputs |-> PyGet(out, "next_agent_inputs", PyDict(EmptyDict))]

\* the AgentResult built from a worker's output (defaults for omitted fields)
\* AgentResult with a missing medical_compliance read as False
AgentResult_DefaultNonCompliant(agent_type, output) ==
    LET out == PyDict(output)
    IN [agent_type |-> agent_type,
        status |-> "completed",
        output |-> out,
        quality_score |-> PyGet(out, "quality_score", PyNum(0)),
        medical_compliance |-> PyGet(out, "medical_compliance", PyBool(FALSE)),
        execution_time |-> PyNum(1),
        recommendations |-> PyGet(out, "recommendations", PyList(0)),
        next_agent_inputs |-> PyGet(out, "next_agent_inputs", PyDict(EmptyDict))]

AgentResult(agent_type, output) ==
    LET out == PyDict(output)
    IN [agent_type |-> agent_type,
        status |-> "completed",
        output |-> out,
        quality_score |-> PyGet(out, "quality_score", PyNum(0)),
        medical_compliance |-> PyGet(out, "medical_compliance", PyBool(TRUE)),
        execution_time |-> PyNum(1),
        recommendations |-> PyGet(out, "recommendations", PyList(0)),
        next_agent_inputs |-> PyGet(out, "next_agent_inputs", PyDict(EmptyDict))]

\* the payloads returned by the seven simulated workers
BuiltinOutput(agent_type) ==
    CASE agent_type = "code-quality" ->
           [quality_score |-> PyNum(95),
            medical_compliance |-> PyBool(TRUE),
            typescript_fixes |-> PyList(2),
            lint_issues_resolved |-> PyNum(10),
            build_optimization |-> PyDict(
                [bundle_size_reduction |-> PyStr(1),
                 build_time_improvement |-> PyStr(1)]),
            recommendations |-> PyList(3),
            next_agent_inputs |-> PyDict(
                [code_quality_status |-> PyStr(1),
                 typescript_compliance |-> PyBool(TRUE),
                 medical_code_standards |-> PyBool(TRUE)])]
      [] agent_type = "ui-ux" ->
           [quality_score |-> PyNum(94),
            medical_compliance |-> PyBool(TRUE),
            ui_improvements |-> PyList(3),
            accessibility_score |-> PyNum(94),
            medical_design_features |-> PyList(3),
            recommendations |-> PyList(3),
            next_agent_inputs |-> PyDict(
                [ui_optimized |-> PyBool(TRUE),
                 medical_design_compliant |-> PyBool(TRUE),
                 accessibility_ready |-> PyBool(TRUE)])]
      [] agent_type = "performance" ->
           [quality_score |-> PyNum(97),
            medical_compliance |-> PyBool(TRUE),
            bundle_optimization |-> PyDict(
                [original_size |-> PyStr(1),
                 optimized_size |-> PyStr(1),
                 reduction_percentage |-> PyStr(1)]),
            pwa_implementation |-> PyDict(
                [offline_quizzes |-> PyBool(TRUE),
                 service_worker |-> PyBool(TRUE),
                 caching_strategy |-> PyStr(1)]),
            core_web_vitals |-> PyDict(
                [LCP |-> PyStr(1), FID |-> PyStr(1), CLS |-> PyStr(1)]),
            recommendations |-> PyList(3),
            next_agent_inputs |-> PyDict(
                [performance_optimized |-> PyBool(TRUE),
                 pwa_enabled |-> PyBool(TRUE),
                 medical_performance_standards |-> PyBool(TRUE)])]
      [] agent_type = "testing" ->
           [quality_score |-> PyNum(94),
            medical_compliance |-> PyBool(TRUE),
            test_coverage |-> PyDict(
                [unit_tests |-> PyStr(1),
                 coverage_percentage |-> PyNum(85),
                 medical_scenarios |-> PyBool(TRUE)]),
            medical_validation |-> PyDict(
                [usmle_compliance |-> PyBool(TRUE),
                 medical_content_accuracy |-> PyBool(TRUE),
                 clinical_scenario_testing |-> PyBool(TRUE)]),
            cross_browser_testing |-> PyDict(
                [chrome |-> PyBool(TRUE), firefox |-> PyBool(TRUE),
                 safari |-> PyBool(TRUE), mobile_devices |-> PyBool(TRUE)]),
            recommendations |-> PyList(3),
            next_agent_inputs |-> PyDict(
                [testing_comprehensive |-> PyBool(TRUE),
                 medical_validation_complete |-> PyBool(TRUE),
                 quality_assured |-> PyBool(TRUE)])]
      [] agent_type = "security" ->
           [quality_score |-> PyNum(97),
            medical_compliance |-> PyBool(TRUE),
            hipaa_compliance |-> PyDict(
                [educational_data_protection |-> PyBool(TRUE),
                 error_logging_sanitized |-> PyBool(TRUE),
                 no_pii_exposure |-> PyBool(TRUE)]),
            security_assessment |-> PyDict(
                [vulnerabilities_found |-> PyNum(0),
                 authentication_security |-> PyStr(1),
                 session_management |-> PyStr(1)]),
            medical_security_features |-> PyList(3),
            recommendations |-> PyList(3),
            next_agent_inputs |-> PyDict(
                [security_validated |-> PyBool(TRUE),
                 hipaa_compliant |-> PyBool(TRUE),
                 medical_security_ready |-> PyBool(TRUE)])]
      [] agent_type = "devops" ->
           [quality_score |-> PyNum(96),
            medical_compliance |-> PyBool(TRUE),
            ci_cd_pipeline |-> PyDict(
                [github_actions_workflows |-> PyNum(7),
                 automation_coverage |-> PyStr(1),
                 medical_quality_gates |-> PyBool(TRUE)]),
            monitoring_setup |-> PyDict(
                [uptime_monitoring |-> PyStr(1),
                 medical_student_peak_hours |-> PyStr(1),
                 disaster_recovery |-> PyStr(1)]),
            deployment_optimization |-> PyDict(
                [zero_downtime |-> PyBool(TRUE),
                 medical_continuity |-> PyBool(TRUE),
                 global_cdn |-> PyBool(TRUE)]),
            recommendations |-> PyList(3),
            next_agent_inputs |-> PyDict(
                [devops_ready |-> PyBool(TRUE),
                 medical_reliability_assured |-> PyBool(TRUE),
                 production_deployment_ready |-> PyBool(TRUE)])]
      [] agent_type = "architecture" ->
           [quality_score |-> PyNum(94),
            medical_compliance |-> PyBool(TRUE),
            architectural_assessment |-> PyDict(
                [overall_grade |-> PyStr(1),
                 medical_domain_suitability |-> PyStr(1),
                 scalability_readiness |-> PyStr(1),
                 usmle_platform_comparison |-> PyStr(1)]),
            system_integration |-> PyDict(
                [agent_coordination |-> PyStr(1),
                 component_cohesion |-> PyStr(1),
                 medical_workflow_support |-> PyStr(1)]),
            enterprise_readiness |-> PyDict(
                [scalability |-> PyStr(1),
                 multi_tenant_ready |-> PyBool(TRUE),
                 medical_school_integration |-> PyBool(TRUE)]),
            recommendations |-> PyList(3),
            next_agent_inputs |-> PyDict(
                [architecture_validated |-> PyBool(TRUE),
                 medical_platform_excellence |-> PyBool(TRUE),
                 production_ready |-> PyBool(TRUE)])]

---------------------------------------------------------------------------
(* Worker outputs.  The workers are external collaborators: a worker      *)
(* returns some payload or raises.  The payloads are the simulated one     *)
(* and its variations in the fields the coordinator reads.                 *)

\* the two output entries read by each branch of the criteria check:
\* <<key, sub-key>>, sub-key "" for an entry that is read directly
CriteriaKeys ==
    [a \in AgentType |->
        CASE a = "code-quality" ->
               << <<"typescript_fixes", "">>, <<"build_optimization", "">> >>
          [] a = "ui-ux" ->
               << <<"accessibility_score", "">>,
                  <<"medical_design_features", "">> >>
          [] a = "performance" ->
               << <<"pwa_implementation", "offline_quizzes">>,
                  <<"core_web_vitals", "">> >>
          [] a = "testing" ->
               << <<"test_coverage", "coverage_percentage">>,
                  <<"medical_validation", "usmle_compliance">> >>
          [] a = "security" ->
               << <<"hipaa_compliance", "educational_data_protection">>,
                  <<"security_assessment", "vulnerabilities_found">> >>
          [] a = "devops" ->
               << <<"monitoring_setup", "uptime_monitoring">>,
                  <<"deployment_optimization", "zero_downtime">> >>
          [] a = "architecture" ->
               << <<"architectural_assessment", "medical_domain_suitability">>,
                  <<"enterprise_readiness", "scalability">> >>]

\* f with entry k set to v, or removed when v is Unbound
SetKey(f, k, v) == IF v = Unbound THEN Del(f, k) ELSE Upd(f, k, v)

\* values tried for the output entry <<key, sub>> of a worker: the simulated
\* one, absent, and values of every kind a payload may hold
SlotValues(agent_type, slot) ==
    LET key == CriteriaKeys[agent_type][slot][1]
        sub == CriteriaKeys[agent_type][slot][2]
    IN {BuiltinOutput(agent_type)[key], Unbound,
        PyList(0), PyNum(85), PyNum(100), PyStr(1), PyDict(EmptyDict)}
       \cup (IF sub = "" THEN {}
             ELSE {PyDict([k \in {sub} |-> PyBool(FALSE)]),
                   PyDict([k \in {sub} |-> PyNum(100)])})

\* scores tried for a worker: around the threshold of its gate
ScoreValues(agent_type) ==
    {0, required_score[agent_type] - 1, required_score[agent_type], 100}

\* the simulated payload with the gate-relevant fields replaced
Payload(agent_type, score, compliant, v1, v2) ==
    LET b0 == BuiltinOutput(agent_type)
        b1 == Upd(b0, "quality_score", PyNum(score))
        b2 == Upd(b1, "medical_compliance", PyBool(compliant))
        b3 == SetKey(b2, CriteriaKeys[agent_type][1][1], v1)
    IN SetKey(b3, CriteriaKeys[agent_type][2][1], v2)

\* every (agent type, result) pair handed to a stand-alone gate evaluation
GateInputs ==
    UNION {
      {[agent_type |-> a,
        agent_result |-> AgentResult(a, Payload(a, s, c, v1, v2))] :
          s \in ScoreValues(a), c \in BOOLEAN,
          v1 \in SlotValues(a, 1), v2 \in SlotValues(a, 2)} :
      a \in AgentType}

NoTask == [state |-> "idle", context |-> Unbound, result |-> EmptyDict]

\* a coordinator right after __init__, no workflow started
Constructed ==
    /\ pc = "idle"
    /\ workflow_results = EmptyDict
    /\ quality_gates = initialize_quality_gates
    /\ tasks = [a \in AgentType |-> NoTask]
    /\ idx = 0
    /\ previous_agent_output = Unbound
    /\ coordination_context = Unbound
    /\ integration_context = Unbound
    /\ dispatch_log = <<>>
    /\ evaluated = [a \in AgentType |-> Unbound]
    /\ feedback_analysis = EmptyDict
    /\ earlier_record = EmptyDict

workflow_vars == <<pc, workflow_results, tasks, idx, previous_agent_output,
                   coordination_context, integration_context, dispatch_log,
                   evaluated>>

---------------------------------------------------------------------------
(* Stand-alone gate evaluation: _validate_quality_gate applied to one      *)
(* (agent type, result) pair, with the compliance flag set or unset        *)

GateInit ==
    /\ Constructed
    /\ medical_compliance_required \in BOOLEAN
    /\ eval_in \in GateInputs
    /\ eval_out = Unbound

\* one call of _validate_quality_gate: assigns gate.passed unless a check
\* raised
validate_quality_gate ==
    /\ pc = "idle"
    /\ eval_in # EmptyDict
    /\ eval_out = Unbound
    /\ LET a == eval_in.agent_type
           p == ValidateOutcome(quality_gates, a, eval_in.agent_result,
                                medical_compliance_required)
       IN /\ eval_out' = IF IsRaise(p) THEN p
                         ELSE AssignPassed(quality_gates[a], p).passed
          /\ quality_gates' =
               IF IsRaise(p) THEN quality_gates
               ELSE [quality_gates EXCEPT ![a] = AssignPassed(@, p)]
    /\ UNCHANGED <<workflow_vars, medical_compliance_required, eval_in,
                   feedback_analysis, earlier_record>>

GateNext == validate_quality_gate

GateSpec == GateInit /\ [][GateNext]_vars

\* the four keys of a worker's output that _execute_agent reads with a default
DefaultedKeys ==
    {"quality_score", "medical_compliance", "recommendations",
     "next_agent_inputs"}

RECURSIVE Without(_, _)
\* the mapping f with the keys of the set ks removed
Without(f, ks) ==
    IF ks = {} THEN f
    ELSE LET k == CHOOSE x \in ks : TRUE
         IN Without(Del(f, k), ks \ {k})

\* the outputs a worker of type a may return: the simulated one with any of
\* the defaulted keys left out
SparseOutputs(a) == {Without(BuiltinOutput(a), ks) : ks \in SUBSET DefaultedKeys}

\* a coordinator and the output a worker has just returned to _execute_agent
DefaultsInit ==
    /\ Constructed
    /\ medical_compliance_required \in BOOLEAN
    /\ \E a \in AgentType : \E out \in SparseOutputs(a) :
          eval_in = [agent_type |-> a, output |-> out]
    /\ eval_out = Unbound

\* the return statement of _execute_agent: the AgentResult built from output
execute_agent ==
    /\ "output" \in DOMAIN eval_in
    /\ eval_in' = [agent_type |-> eval_in.agent_type,
                   agent_result |-> AgentResult(eval_in.agent_type,
                                                eval_in.output)]
    /\ UNCHANGED <<workflow_vars, quality_gates, medical_compliance_required,
                   eval_out, feedback_analysis, earlier_record>>

\* the gate evaluation of the result _execute_agent returned
validate_returned_result ==
    /\ "agent_result" \in DOMAIN eval_in
    /\ validate_quality_gate

DefaultsNext == execute_agent \/ validate_returned_result

DefaultsSpec == DefaultsInit /\ [][DefaultsNext]_vars

---------------------------------------------------------------------------
(* The two workflows.  A step of the model is the code that runs between   *)
(* two suspensions of the workflow coroutine: the coroutine is suspended   *)
(* only while the workers it awaits are running.                           *)

\* position of an agent type in execution_order
Position(a) == CHOOSE i \in 1..Len(execution_order) : execution_order[i] = a

\* the payloads a worker may return
WorkerOutputs(a) ==
    LET b == BuiltinOutput(a)
        key1 == CriteriaKeys[a][1][1]
        key2 == CriteriaKeys[a][2][1]
    IN {b,
        Upd(b, "next_agent_inputs", PyDict([k \in {"x"} |-> PyNum(Position(a))])),
        Upd(b, "quality_score", PyNum(0)),
        Upd(b, "medical_compliance", PyBool(FALSE)),
        Del(b, key1),
        Upd(b, key2, PyDict(EmptyDict)),
        Upd(b, key1, PyStr(1))}

Init ==
    /\ Constructed
    /\ medical_compliance_required = TRUE
    /\ eval_in = EmptyDict
    /\ eval_out = Unbound

gate_vars == <<eval_in, eval_out, medical_compliance_required>>

\* what no step of a workflow changes
other_vars == <<gate_vars, feedback_analysis, earlier_record>>

\* Dispatched with each member given the context extended by an entry for
\* every member called before it
Dispatched_PerMember(agents, context) ==
    [a \in AgentType |->
        IF \E i \in 1..Len(agents) : agents[i] = a
        THEN LET i == CHOOSE j \in 1..Len(agents) : agents[j] = a
                 before == {agents[j] : j \in 1..(i - 1)}
             IN [state |-> "running",
                 context |-> PyDict([k \in (DOMAIN context.d) \cup before |->
                                       IF k \in before THEN PyDict(EmptyDict)
                                       ELSE context.d[k]]),
                 result |-> EmptyDict]
        ELSE tasks[a]]

\* the tasks after _execute_agent(a, context, ...) was called for each a of
\* the sequence agents
Dispatched(agents, context) ==
    [a \in AgentType |->
        IF \E i \in 1..Len(agents) : agents[i] = a
        THEN [state |-> "running", context |-> context, result |-> EmptyDict]
        ELSE tasks[a]]

\* a worker returns its payload and _execute_agent wraps it in an AgentResult
WorkerReturns(a) ==
    /\ tasks[a].state = "running"
    /\ \E out \in WorkerOutputs(a) :
          tasks' = [tasks EXCEPT ![a].state = "returned",
                                 ![a].result = AgentResult(a, out)]
    /\ UNCHANGED <<pc, workflow_results, quality_gates, idx,
                   previous_agent_output, coordination_context,
                   integration_context, dispatch_log, evaluated, other_vars>>

\* a worker raises and the exception leaves _execute_agent
WorkerRaises(a) ==
    /\ tasks[a].state = "running"
    /\ tasks' = [tasks EXCEPT ![a].state = "raised"]
    /\ UNCHANGED <<pc, workflow_results, quality_gates, idx,
                   previous_agent_output, coordination_context,
                   integration_context, dispatch_log, evaluated, other_vars>>

\* workflow_results["end_time"] = ...; return workflow_results
Returned(wr) == Upd(wr, "end_time", "now")

---------------------------------------------------------------------------
(* execute_sequential_workflow *)

SequentialRecord ==
    [workflow_type |-> "sequential",
     start_time |-> "now",
     agents |-> EmptyDict,
     quality_gates |-> EmptyDict,
     overall_success |-> TRUE,
     medical_compliance |-> TRUE]

\* StoreSequential also lowering the record's medical_compliance to that of
\* the worker's result
StoreSequential_Compliance(wr, a, agent_result, gate_result) ==
    [wr EXCEPT !.agents = Upd(@, a, agent_result),
               !.quality_gates = Upd(@, a, GateSnapshot(gate_result)),
               !.medical_compliance =
                    @ /\ Truthy(agent_result.medical_compliance)]

\* StoreSequential without the gate outcome
StoreSequential_ResultOnly(wr, a, agent_result, gate_result) ==
    [wr EXCEPT !.agents = Upd(@, a, agent_result)]

\* workflow_results["agents"][a] = asdict(agent_result)
\* workflow_results["quality_gates"][a] = asdict(gate_result)
StoreSequential(wr, a, agent_result, gate_result) ==
    [wr EXCEPT !.agents = Upd(@, a, agent_result),
               !.quality_gates = Upd(@, a, GateSnapshot(gate_result))]

\* SequentialHalts with the break taken after every worker
SequentialHalts_Always(passed) == TRUE

\* SequentialHalts with the break left out
SequentialHalts_Never(passed) == FALSE

\* if not gate_result.passed: ... break
SequentialHalts(passed) == ~Truthy(passed)

\* ForwardedContext with the forwarded entries added to the context so far
ForwardedContext_Merged(previous, agent_result) ==
    LET fwd == agent_result.next_agent_inputs.d
    IN PyDict([k \in (DOMAIN previous.d) \cup (DOMAIN fwd) |->
                  IF k \in DOMAIN fwd THEN fwd[k] ELSE previous.d[k]])

\* previous_agent_output = agent_result.next_agent_inputs
ForwardedContext(previous, agent_result) == agent_result.next_agent_inputs

\* the call, up to the first await of a worker
StartSequential ==
    /\ pc = "idle"
    /\ eval_in = EmptyDict
    /\ workflow_results' = SequentialRecord
    /\ previous_agent_output' = PyDict(EmptyDict)
    /\ idx' = 1
    /\ tasks' = Dispatched(<<execution_order[1]>>, PyDict(EmptyDict))
    /\ dispatch_log' = Append(dispatch_log, execution_order[1])
    /\ pc' = "seq_await"
    /\ UNCHANGED <<quality_gates, coordination_context, integration_context,
                   evaluated, other_vars>>

SeqAgent == execution_order[idx]

\* the outcome computed by the gate evaluation of the awaited agent
SeqPassed ==
    ValidateOutcome(quality_gates, SeqAgent, tasks[SeqAgent].result,
                    medical_compliance_required)

\* gate_result read from the shared gate object as whichever evaluation
\* came last left it, not as this run's evaluation assigned it
SeqGate_AsLeft == quality_gates[SeqAgent]

\* gate_result: the shared gate object after that evaluation
SeqGate == AssignPassed(quality_gates[SeqAgent], SeqPassed)

\* the awaited worker raised: the exception leaves the workflow
SeqAgentRaised ==
    /\ pc = "seq_await"
    /\ tasks[SeqAgent].state = "raised"
    /\ pc' = "raised"
    /\ UNCHANGED <<workflow_results, quality_gates, tasks, idx,
                   previous_agent_output, coordination_context,
                   integration_context, dispatch_log, evaluated, other_vars>>

\* the gate evaluation raised: the exception leaves the workflow
SeqGateRaised ==
    /\ pc = "seq_await"
    /\ tasks[SeqAgent].state = "returned"
    /\ IsRaise(SeqPassed)
    /\ evaluated' = [evaluated EXCEPT ![SeqAgent] = PyRaise]
    /\ pc' = "raised"
    /\ UNCHANGED <<workflow_results, quality_gates, tasks, idx,
                   previous_agent_output, coordination_context,
                   integration_context, dispatch_log, other_vars>>

\* the gate failed: store, mark the run failed, leave the loop and return
SeqGateFailed ==
    /\ pc = "seq_await"
    /\ tasks[SeqAgent].state = "returned"
    /\ ~IsRaise(SeqPassed)
    /\ SequentialHalts(SeqGate.passed)
    /\ quality_gates' = [quality_gates EXCEPT ![SeqAgent] = SeqGate]
    /\ evaluated' = [evaluated EXCEPT ![SeqAgent] = SeqPassed]
    /\ workflow_results' =
          Returned(Upd(StoreSequential(workflow_results, SeqAgent,
                                       tasks[SeqAgent].result, SeqGate),
                       "overall_success", FALSE))
    /\ pc' = "returned"
    /\ UNCHANGED <<tasks, idx, previous_agent_output, coordination_context,
                   integration_context, dispatch_log, other_vars>>

\* the gate passed and the loop goes on: store, forward the context, call the
\* next agent
SeqAdvance ==
    /\ pc = "seq_await"
    /\ tasks[SeqAgent].state = "returned"
    /\ ~IsRaise(SeqPassed)
    /\ ~SequentialHalts(SeqGate.passed)
    /\ idx < Len(execution_order)
    /\ quality_gates' = [quality_gates EXCEPT ![SeqAgent] = SeqGate]
    /\ evaluated' = [evaluated EXCEPT ![SeqAgent] = SeqPassed]
    /\ workflow_results' = StoreSequential(workflow_results, SeqAgent,
                                           tasks[SeqAgent].result, SeqGate)
    /\ previous_agent_output' =
          ForwardedContext(previous_agent_output, tasks[SeqAgent].result)
    /\ idx' = idx + 1
    /\ tasks' = Dispatched(<<execution_order[idx + 1]>>,
                           ForwardedContext(previous_agent_output,
                                            tasks[SeqAgent].result))
    /\ dispatch_log' = Append(dispatch_log, execution_order[idx + 1])
    /\ UNCHANGED <<pc, coordination_context, integration_context, other_vars>>

\* the gate of the last agent passed: store and return
SeqFinish ==
    /\ pc = "seq_await"
    /\ tasks[SeqAgent].state = "returned"
    /\ ~IsRaise(SeqPassed)
    /\ ~SequentialHalts(SeqGate.passed)
    /\ idx = Len(execution_order)
    /\ quality_gates' = [quality_gates EXCEPT ![SeqAgent] = SeqGate]
    /\ evaluated' = [evaluated EXCEPT ![SeqAgent] = SeqPassed]
    /\ workflow_results' =
          Returned(StoreSequential(workflow_results, SeqAgent,
                                   tasks[SeqAgent].result, SeqGate))
    /\ previous_agent_output' =
          ForwardedContext(previous_agent_output, tasks[SeqAgent].result)
    /\ pc' = "returned"
    /\ UNCHANGED <<tasks, idx, coordination_context, integration_context,
                   dispatch_log, other_vars>>

---------------------------------------------------------------------------
(* execute_parallel_workflow *)

ParallelRecord ==
    [workflow_type |-> "parallel",
     start_time |-> "now",
     phases |-> [independent |-> EmptyDict,
                 coordinated |-> EmptyDict,
                 integration |-> EmptyDict],
     overall_success |-> TRUE,
     medical_compliance |-> TRUE]

\* StoreParallel storing only the results whose gate passed
StoreParallel_PassedOnly(wr, phase, a, agent_result, gate_result) ==
    IF Truthy(gate_result.passed)
    THEN [wr EXCEPT !.phases[phase] =
             Upd(@, a, [agent_result |-> agent_result,
                        quality_gate |-> GateSnapshot(gate_result)])]
    ELSE wr

\* workflow_results["phases"][phase][a] =
\*     {"agent_result": asdict(agent_result), "quality_gate": asdict(gate_result)}
StoreParallel(wr, phase, a, agent_result, gate_result) ==
    [wr EXCEPT !.phases[phase] =
        Upd(@, a, [agent_result |-> agent_result,
                   quality_gate |-> GateSnapshot(gate_result)])]

\* OnMemberRaised with the run left successful
OnMemberRaised_Ignored(wr) == wr

\* if isinstance(results[i], Exception):
\*     workflow_results["overall_success"] = False; continue
OnMemberRaised(wr) == [wr EXCEPT !.overall_success = FALSE]

\* MergeContext as a flat update of the context with the forwarded entries
MergeContext_Flat(context, a, agent_result) ==
    LET fwd == agent_result.next_agent_inputs.d
    IN [k \in (DOMAIN context) \cup (DOMAIN fwd) |->
           IF k \in DOMAIN fwd THEN fwd[k] ELSE context[k]]

\* context[agent_type.value] = agent_result.next_agent_inputs
MergeContext(context, a, agent_result) ==
    Upd(context, a, agent_result.next_agent_inputs)

\* PhaseProceeds whatever the success flag is
PhaseProceeds_Always(wr) == TRUE

\* if workflow_results["overall_success"]:
PhaseProceeds(wr) == wr.overall_success

\* one iteration of the loop over the results of a gathered group; st holds
\* the record, the context being merged, the gates, the evaluation history
\* and whether an evaluation raised
ProcessMember(phase, a, st) ==
    IF tasks[a].state = "raised"
    THEN [st EXCEPT !.wr = OnMemberRaised(@)]
    ELSE LET agent_result == tasks[a].result
             passed == ValidateOutcome(st.gates, a, agent_result,
                                       medical_compliance_required)
             gate_result == AssignPassed(st.gates[a], passed)
         IN IF IsRaise(passed)
            THEN [st EXCEPT !.err = TRUE, !.evals[a] = PyRaise]
            ELSE [wr |-> IF Truthy(gate_result.passed)
                         THEN StoreParallel(st.wr, phase, a, agent_result,
                                            gate_result)
                         ELSE [StoreParallel(st.wr, phase, a, agent_result,
                                             gate_result)
                                 EXCEPT !.overall_success = FALSE],
                  ctx |-> IF Truthy(gate_result.passed)
                          THEN MergeContext(st.ctx, a, agent_result)
                          ELSE st.ctx,
                  gates |-> [st.gates EXCEPT ![a] = gate_result],
                  evals |-> [st.evals EXCEPT ![a] = passed],
                  err |-> FALSE]

RECURSIVE ProcessFrom(_, _, _, _)
\* the loop from iteration i on; it is left when an evaluation raises
\* (after is the loop state once iteration i is done, a value computed once)
ProcessFrom(phase, agents, i, st) ==
    IF i > Len(agents) \/ st.err THEN st
    ELSE CHOOSE rest \in {ProcessFrom(phase, agents, i + 1, after) :
                             after \in {ProcessMember(phase, agents[i], st)}} :
            TRUE

\* ProcessGroup with the context of the phase before carried into the new one
ProcessGroup_Carrying(phase, agents) ==
    ProcessFrom(phase, agents, 1,
                [wr |-> workflow_results,
                 ctx |-> IF coordination_context = Unbound THEN EmptyDict
                         ELSE coordination_context.d,
                 gates |-> quality_gates, evals |-> evaluated, err |-> FALSE])

\* the whole loop over a gathered group, starting from an empty context
ProcessGroup(phase, agents) ==
    ProcessFrom(phase, agents, 1,
                [wr |-> workflow_results, ctx |-> EmptyDict,
                 gates |-> quality_gates, evals |-> evaluated, err |-> FALSE])

\* asyncio.gather(*tasks, return_exceptions=True) resumes the workflow when
\* every member has returned or raised
\* GroupDone for a gather that completes only when every member returned
GroupDone_AllReturned(agents) ==
    \A i \in 1..Len(agents) : tasks[agents[i]].state = "returned"

GroupDone(agents) ==
    \A i \in 1..Len(agents) : tasks[agents[i]].state \in {"returned", "raised"}

\* StartParallel calling the coordinated agents together with the
\* independent ones
StartParallel_Eager ==
    /\ pc = "idle"
    /\ eval_in = EmptyDict
    /\ workflow_results' = ParallelRecord
    /\ tasks' = Dispatched(independent_agents \o coordinated_agents,
                           PyDict(EmptyDict))
    /\ dispatch_log' = dispatch_log \o independent_agents
    /\ pc' = "p1_gather"
    /\ UNCHANGED <<quality_gates, idx, previous_agent_output,
                   coordination_context, integration_context, evaluated,
                   other_vars>>

\* the call, up to the gather of the independent phase
StartParallel ==
    /\ pc = "idle"
    /\ eval_in = EmptyDict
    /\ workflow_results' = ParallelRecord
    /\ tasks' = Dispatched(independent_agents, PyDict(EmptyDict))
    /\ dispatch_log' = dispatch_log \o independent_agents
    /\ pc' = "p1_gather"
    /\ UNCHANGED <<quality_gates, idx, previous_agent_output,
                   coordination_context, integration_context, evaluated,
                   other_vars>>

\* a gate evaluation of the independent phase raised: the exception leaves
\* the workflow
Phase1GateRaised ==
    /\ pc = "p1_gather"
    /\ GroupDone(independent_agents)
    /\ LET st == ProcessGroup("independent", independent_agents)
       IN /\ st.err
          /\ workflow_results' = st.wr
          /\ quality_gates' = st.gates
          /\ evaluated' = st.evals
          /\ coordination_context' = PyDict(st.ctx)
    /\ pc' = "raised"
    /\ UNCHANGED <<tasks, idx, previous_agent_output, integration_context,
                   dispatch_log, other_vars>>

\* the independent phase succeeded: the coordinated agents are called with
\* the coordination context
Phase1Advance ==
    /\ pc = "p1_gather"
    /\ GroupDone(independent_agents)
    /\ LET st == ProcessGroup("independent", independent_agents)
       IN /\ ~st.err
          /\ PhaseProceeds(st.wr)
          /\ workflow_results' = st.wr
          /\ quality_gates' = st.gates
          /\ evaluated' = st.evals
          /\ coordination_context' = PyDict(st.ctx)
          /\ tasks' = Dispatched(coordinated_agents, PyDict(st.ctx))
    /\ dispatch_log' = dispatch_log \o coordinated_agents
    /\ pc' = "p2_gather"
    /\ UNCHANGED <<idx, previous_agent_output, integration_context, other_vars>>

\* the independent phase failed: phases 2 and 3 are skipped
\* Phase1Halt skipping the coordinated phase but entering the integration
\* phase, whose context was never assigned
Phase1Halt_ToIntegration ==
    /\ pc = "p1_gather"
    /\ GroupDone(independent_agents)
    /\ LET st == ProcessGroup("independent", independent_agents)
       IN /\ ~st.err
          /\ ~PhaseProceeds(st.wr)
          /\ workflow_results' = st.wr
          /\ quality_gates' = st.gates
          /\ evaluated' = st.evals
          /\ coordination_context' = PyDict(st.ctx)
    /\ tasks' = Dispatched(integration_agents, integration_context)
    /\ dispatch_log' = dispatch_log \o integration_agents
    /\ pc' = "p3_await"
    /\ UNCHANGED <<idx, previous_agent_output, integration_context, other_vars>>

Phase1Halt ==
    /\ pc = "p1_gather"
    /\ GroupDone(independent_agents)
    /\ LET st == ProcessGroup("independent", independent_agents)
       IN /\ ~st.err
          /\ ~PhaseProceeds(st.wr)
          /\ workflow_results' = Returned(st.wr)
          /\ quality_gates' = st.gates
          /\ evaluated' = st.evals
          /\ coordination_context' = PyDict(st.ctx)
    /\ pc' = "returned"
    /\ UNCHANGED <<tasks, idx, previous_agent_output, integration_context,
                   dispatch_log, other_vars>>

Phase2GateRaised ==
    /\ pc = "p2_gather"
    /\ GroupDone(coordinated_agents)
    /\ LET st == ProcessGroup("coordinated", coordinated_agents)
       IN /\ st.err
          /\ workflow_results' = st.wr
          /\ quality_gates' = st.gates
          /\ evaluated' = st.evals
          /\ integration_context' = PyDict(st.ctx)
    /\ pc' = "raised"
    /\ UNCHANGED <<tasks, idx, previous_agent_output, coordination_context,
                   dispatch_log, other_vars>>

\* the coordinated phase succeeded: the integration agent is called with the
\* integration context
Phase2Advance ==
    /\ pc = "p2_gather"
    /\ GroupDone(coordinated_agents)
    /\ LET st == ProcessGroup("coordinated", coordinated_agents)
       IN /\ ~st.err
          /\ PhaseProceeds(st.wr)
          /\ workflow_results' = st.wr
          /\ quality_gates' = st.gates
          /\ evaluated' = st.evals
          /\ integration_context' = PyDict(st.ctx)
          /\ tasks' = Dispatched(integration_agents, PyDict(st.ctx))
    /\ dispatch_log' = dispatch_log \o integration_agents
    /\ pc' = "p3_await"
    /\ UNCHANGED <<idx, previous_agent_output, coordination_context, other_vars>>

\* the coordinated phase failed: phase 3 is skipped
Phase2Halt ==
    /\ pc = "p2_gather"
    /\ GroupDone(coordinated_agents)
    /\ LET st == ProcessGroup("coordinated", coordinated_agents)
       IN /\ ~st.err
          /\ ~PhaseProceeds(st.wr)
          /\ workflow_results' = Returned(st.wr)
          /\ quality_gates' = st.gates
          /\ evaluated' = st.evals
          /\ integration_context' = PyDict(st.ctx)
    /\ pc' = "returned"
    /\ UNCHANGED <<tasks, idx, previous_agent_output, coordination_context,
                   dispatch_log, other_vars>>

IntegrationAgent == integration_agents[1]

IntegrationPassed ==
    ValidateOutcome(quality_gates, IntegrationAgent,
                    tasks[IntegrationAgent].result,
                    medical_compliance_required)

IntegrationGate == AssignPassed(quality_gates[IntegrationAgent],
                                IntegrationPassed)

\* the integration agent is awaited directly: its exception leaves the workflow
Phase3AgentRaised ==
    /\ pc = "p3_await"
    /\ tasks[IntegrationAgent].state = "raised"
    /\ pc' = "raised"
    /\ UNCHANGED <<workflow_results, quality_gates, tasks, idx,
                   previous_agent_output, coordination_context,
                   integration_context, dispatch_log, evaluated, other_vars>>

Phase3GateRaised ==
    /\ pc = "p3_await"
    /\ tasks[IntegrationAgent].state = "returned"
    /\ IsRaise(IntegrationPassed)
    /\ evaluated' = [evaluated EXCEPT ![IntegrationAgent] = PyRaise]
    /\ pc' = "raised"
    /\ UNCHANGED <<workflow_results, quality_gates, tasks, idx,
                   previous_agent_output, coordination_context,
                   integration_context, dispatch_log, other_vars>>

\* the integration result is gated and stored, and the record is returned
Phase3Finish ==
    /\ pc = "p3_await"
    /\ tasks[IntegrationAgent].state = "returned"
    /\ ~IsRaise(IntegrationPassed)
    /\ quality_gates' =
          [quality_gates EXCEPT ![IntegrationAgent] = IntegrationGate]
    /\ evaluated' = [evaluated EXCEPT ![IntegrationAgent] = IntegrationPassed]
    /\ workflow_results' =
          LET wr == StoreParallel(workflow_results, "integration",
                                  IntegrationAgent,
                                  tasks[IntegrationAgent].result,
                                  IntegrationGate)
          IN Returned(IF Truthy(IntegrationGate.passed) THEN wr
                      ELSE [wr EXCEPT !.overall_success = FALSE])
    /\ pc' = "returned"
    /\ UNCHANGED <<tasks, idx, previous_agent_output, coordination_context,
                   integration_context, dispatch_log, other_vars>>

---------------------------------------------------------------------------
(* execute_feedback_loop *)

\* the number of calls of execute_feedback_loop that are followed
MaxFeedbackCalls == 2

\* len(v): TypeError when v has no length
PyLen(v) == IF v.tag \in {"str", "list", "dict"} THEN PyNum(v.n) ELSE PyRaise

\* the phases of a parallel record, in the order the record was built
PhaseNames == <<"independent", "coordinated", "integration">>

\* the agent types stored under a phase, in the order they were stored
PhaseAgents(phase) ==
    CASE phase = "independent" -> independent_agents
      [] phase = "coordinated" -> coordinated_agents
      [] phase = "integration" -> integration_agents

\* FeedbackStatus with every record taken as successful
FeedbackStatus_AlwaysSuccessful(wr) == "successful"

\* if workflow_results.get("overall_success"): "successful"
\* else: "needs_improvement"
FeedbackStatus(wr) ==
    IF "overall_success" \in DOMAIN wr /\ wr.overall_success
    THEN "successful" ELSE "needs_improvement"

\* the entries appended for one phase: f"{agent_name} in {phase_name} phase",
\* kept as <<agent_name, phase_name>>, for every stored agent whose
\* quality_gate has no truthy passed
FailedGatesOfPhase(wr, phase) ==
    LET stored == SelectSeq(PhaseAgents(phase),
                            LAMBDA a : a \in DOMAIN wr.phases[phase])
        failed == SelectSeq(stored,
                    LAMBDA a : ~Truthy(wr.phases[phase][a].quality_gate.passed))
    IN [i \in 1..Len(failed) |-> <<failed[i], phase>>]

\* the loop over workflow_results.get("phases", {})
FailedGates(wr) ==
    IF "phases" \notin DOMAIN wr THEN <<>>
    ELSE FailedGatesOfPhase(wr, PhaseNames[1])
           \o FailedGatesOfPhase(wr, PhaseNames[2])
           \o FailedGatesOfPhase(wr, PhaseNames[3])

\* feedback_analysis["workflow_analysis"]
WorkflowAnalysis(wr) ==
    IF FeedbackStatus(wr) = "successful"
    THEN [status |-> "successful", medical_platform_readiness |-> TRUE]
    ELSE [status |-> FeedbackStatus(wr), failed_gates |-> FailedGates(wr)]

\* the fixed list assigned to feedback_analysis["improvement_recommendations"]
ImprovementRecommendations ==
    <<"Implement continuous medical content validation",
      "Add real-time performance monitoring during agent execution",
      "Enhance cross-agent dependency management",
      "Improve medical domain expertise integration",
      "Optimize parallel processing for better resource utilization">>

\* the loop over AgentType filling feedback_analysis["agent_performance"]
\* from workflow_results.get("agents", {})
AgentPerformance(wr) ==
    IF "agents" \notin DOMAIN wr THEN EmptyDict
    ELSE [a \in AgentType \cap DOMAIN wr.agents |->
            [quality_score |-> wr.agents[a].quality_score,
             execution_time |-> wr.agents[a].execution_time,
             medical_compliance |-> wr.agents[a].medical_compliance,
             recommendations_count |-> PyLen(wr.agents[a].recommendations)]]

\* the dict returned by execute_feedback_loop(wr) when the clock reads now
FeedbackAnalysis(wr, now) ==
    [feedback_timestamp |-> now,
     workflow_analysis |-> WorkflowAnalysis(wr),
     improvement_recommendations |-> ImprovementRecommendations,
     agent_performance |-> AgentPerformance(wr),
     medical_compliance_assessment |-> EmptyDict]

\* the number of calls of execute_feedback_loop so far; the clock advances
\* between two calls, and the n-th call reads the time n
FeedbackCalls ==
    IF feedback_analysis = EmptyDict THEN 0
    ELSE feedback_analysis.feedback_timestamp

\* execute_feedback_loop writing its status into the record it analyses
execute_feedback_loop_Annotating ==
    /\ pc = "returned"
    /\ FeedbackCalls < MaxFeedbackCalls
    /\ feedback_analysis' =
          FeedbackAnalysis(workflow_results, FeedbackCalls + 1)
    /\ workflow_results' =
          Upd(workflow_results, "status", FeedbackStatus(workflow_results))
    /\ UNCHANGED <<pc, quality_gates, tasks, idx, previous_agent_output,
                   coordination_context, integration_context, dispatch_log,
                   evaluated, gate_vars, earlier_record>>

\* one call of execute_feedback_loop on the record a workflow returned
execute_feedback_loop ==
    /\ pc = "returned"
    /\ FeedbackCalls < MaxFeedbackCalls
    /\ feedback_analysis' =
          FeedbackAnalysis(workflow_results, FeedbackCalls + 1)
    /\ UNCHANGED <<workflow_vars, quality_gates, gate_vars, earlier_record>>

Next ==
    \/ StartSequential
    \/ StartParallel
    \/ \E a \in AgentType : WorkerReturns(a)
    \/ \E a \in AgentType : WorkerRaises(a)
    \/ SeqAgentRaised
    \/ SeqGateRaised
    \/ SeqGateFailed
    \/ SeqAdvance
    \/ SeqFinish
    \/ Phase1GateRaised
    \/ Phase1Advance
    \/ Phase1Halt
    \/ Phase2GateRaised
    \/ Phase2Advance
    \/ Phase2Halt
    \/ Phase3AgentRaised
    \/ Phase3GateRaised
    \/ Phase3Finish
    \/ execute_feedback_loop

Spec == Init /\ [][Next]_vars

\* self.quality_gates is a plain dict attribute of the coordinator: the
\* registry as built by _initialize_quality_gates, or with the gate of one
\* agent type missing from it
GateRegistries ==
    {initialize_quality_gates} \cup
    {[a \in AgentType \ {missing} |-> initialize_quality_gates[a]] :
        missing \in AgentType}

\* a coordinator whose gate registry may lack one gate, no workflow started
ConfigInit ==
    /\ quality_gates \in GateRegistries
    /\ medical_compliance_required = TRUE
    /\ pc = "idle"
    /\ workflow_results = EmptyDict
    /\ tasks = [a \in AgentType |-> NoTask]
    /\ idx = 0
    /\ previous_agent_output = Unbound
    /\ coordination_context = Unbound
    /\ integration_context = Unbound
    /\ dispatch_log = <<>>
    /\ evaluated = [a \in AgentType |-> Unbound]
    /\ eval_in = EmptyDict
    /\ eval_out = Unbound
    /\ feedback_analysis = EmptyDict
    /\ earlier_record = EmptyDict

ConfigSpec == ConfigInit /\ [][Next]_vars

\* self.quality_gates as an earlier sequential run on the same coordinator
\* left it, when its first k workers returned the simulated payloads and
\* passed and the next one, if any, failed its gate
GatesAfterRun(k) ==
    [a \in AgentType |->
        IF Position(a) <= k
        THEN AssignPassed(initialize_quality_gates[a],
                          GatePassed(a, AgentResult(a, BuiltinOutput(a)), TRUE))
        ELSE initialize_quality_gates[a]]

\* the simulated result of a, with the quality score given
ScoredResult(a, score) ==
    AgentResult(a, Upd(BuiltinOutput(a), "quality_score", PyNum(score)))

\* the record of that earlier run after its first n workers were stored:
\* the first k returned the simulated payloads, the next one a score of 0
RECURSIVE RunPrefix(_, _)
RunPrefix(k, n) ==
    IF n = 0 THEN SequentialRecord
    ELSE LET a == execution_order[n]
             agent_result == IF n <= k THEN AgentResult(a, BuiltinOutput(a))
                             ELSE ScoredResult(a, 0)
             gate_result == AssignPassed(initialize_quality_gates[a],
                                         GatePassed(a, agent_result, TRUE))
         IN StoreSequential(RunPrefix(k, n - 1), a, agent_result, gate_result)

\* the record that earlier run returned: complete when all workers passed,
\* stopped at the worker after the k-th otherwise
RecordAfterRun(k) ==
    IF k = Len(execution_order) THEN Returned(RunPrefix(k, k))
    ELSE Returned(Upd(RunPrefix(k, k + 1), "overall_success", FALSE))

\* a coordinator on which a workflow is about to be run again (main runs the
\* sequential and then the parallel workflow on one coordinator), the caller
\* holding the record of the earlier run
RerunInit ==
    /\ \E k \in 0..Len(execution_order) :
          /\ quality_gates = GatesAfterRun(k)
          /\ earlier_record = RecordAfterRun(k)
    /\ medical_compliance_required = TRUE
    /\ pc = "idle"
    /\ workflow_results = EmptyDict
    /\ tasks = [a \in AgentType |-> NoTask]
    /\ idx = 0
    /\ previous_agent_output = Unbound
    /\ coordination_context = Unbound
    /\ integration_context = Unbound
    /\ dispatch_log = <<>>
    /\ evaluated = [a \in AgentType |-> Unbound]
    /\ eval_in = EmptyDict
    /\ eval_out = Unbound
    /\ feedback_analysis = EmptyDict

RerunSpec == RerunInit /\ [][Next]_vars

\* the agent types whose tasks hold the very dict object that the task of a
\* was called with: the coordinated agents of a parallel run are all given
\* coordination_context itself; every other call has a dict of its own
SameContextObject(a) ==
    IF /\ workflow_results.workflow_type = "parallel"
       /\ \E i \in 1..Len(coordinated_agents) : coordinated_agents[i] = a
    THEN {coordinated_agents[i] : i \in 1..Len(coordinated_agents)}
    ELSE {a}

\* the workers that are followed writing to their context: two members of
\* the coordinated group
ContextWriters == {"testing", "security"}

\* a running worker stores an entry in the context dict it was called with
\* (context["w"] = its position); the write is to the object, so it shows
\* in every variable and every task that holds the object.  tasks[a].result
\* stays the result as it was returned.
WorkerWritesContext(a) ==
    /\ tasks[a].state = "running"
    /\ LET written == PyDict(Upd(tasks[a].context.d, "w", PyNum(Position(a))))
           parallel == workflow_results.workflow_type = "parallel"
       IN /\ written # tasks[a].context
          /\ tasks' = [b \in AgentType |->
                         IF b \in SameContextObject(a)
                         THEN [tasks[b] EXCEPT !.context = written]
                         ELSE tasks[b]]
          /\ previous_agent_output' =
                IF parallel THEN previous_agent_output ELSE written
          /\ coordination_context' =
                IF parallel /\ pc = "p2_gather" THEN written
                ELSE coordination_context
          /\ integration_context' =
                IF parallel /\ pc = "p3_await" THEN written
                ELSE integration_context
    /\ UNCHANGED <<pc, workflow_results, quality_gates, idx, dispatch_log,
                   evaluated, other_vars>>

\* the workflows with workers that may write to their context
SharedNext ==
    \/ Next
    \/ \E a \in ContextWriters : WorkerWritesContext(a)

SharedSpec == Init /\ [][SharedNext]_vars

\* the agent types whose gates another run on the same coordinator evaluates
\* while this run is in progress: one of each phase of a parallel run
ContendedGates == {"code-quality", "testing", "architecture"}

\* the results the other run obtained from its own workers
OtherRunResults(a) == {AgentResult(a, BuiltinOutput(a)), ScoredResult(a, 0)}

\* another run, a concurrent task on the same coordinator, evaluates the gate
\* of a on its own worker's result: _validate_quality_gate awaits nothing, so
\* the evaluation and its assignment to the shared gate object are one step,
\* taken while this run is suspended in an await
OtherRunEvaluates(a, agent_result) ==
    /\ pc \in {"seq_await", "p1_gather", "p2_gather", "p3_await"}
    /\ LET p == ValidateOutcome(quality_gates, a, agent_result,
                                medical_compliance_required)
       IN /\ ~IsRaise(p)
          /\ quality_gates' = [quality_gates EXCEPT ![a] = AssignPassed(@, p)]
    /\ UNCHANGED <<workflow_vars, other_vars>>

InterleavedNext ==
    \/ Next
    \/ \E a \in ContendedGates :
         \E agent_result \in OtherRunResults(a) :
            OtherRunEvaluates(a, agent_result)

InterleavedSpec == Init /\ [][InterleavedNext]_vars

\* the workflow coroutine resumed by the event loop: whatever follows the
\* await it is suspended in, once that await has completed
WorkflowResumes ==
    \/ SeqAgentRaised
    \/ SeqGateRaised
    \/ SeqGateFailed
    \/ SeqAdvance
    \/ SeqFinish
    \/ Phase1GateRaised
    \/ Phase1Advance
    \/ Phase1Halt
    \/ Phase2GateRaised
    \/ Phase2Advance
    \/ Phase2Halt
    \/ Phase3AgentRaised
    \/ Phase3GateRaised
    \/ Phase3Finish

\* one payload for each way the evaluation of the gate of a can go: the
\* simulated one (passes), a score of 0 (fails), a criterion of the wrong
\* type (the evaluation may raise)
OutcomeOutputs(a) ==
    LET b == BuiltinOutput(a)
    IN {b, Upd(b, "quality_score", PyNum(0)),
        Upd(b, CriteriaKeys[a][1][1], PyStr(1))}

\* the worker for a returns one of these payloads
WorkerReturnsOutcome(a) ==
    /\ tasks[a].state = "running"
    /\ \E out \in OutcomeOutputs(a) :
          tasks' = [tasks EXCEPT ![a].state = "returned",
                                 ![a].result = AgentResult(a, out)]
    /\ UNCHANGED <<pc, workflow_results, quality_gates, idx,
                   previous_agent_output, coordination_context,
                   integration_context, dispatch_log, evaluated, other_vars>>

\* the dispatched worker for a terminates
WorkerTerminates(a) == WorkerReturnsOutcome(a) \/ WorkerRaises(a)

LiveNext ==
    \/ StartSequential
    \/ StartParallel
    \/ \E a \in AgentType : WorkerReturnsOutcome(a)
    \/ \E a \in AgentType : WorkerRaises(a)
    \/ WorkflowResumes

\* one workflow run in which every dispatched worker eventually returns or
\* raises, and the event loop eventually resumes a coroutine whose await has
\* completed
LiveSpec ==
    /\ Init
    /\ [][LiveNext]_vars
    /\ \A a \in AgentType : WF_vars(WorkerTerminates(a))
    /\ WF_vars(WorkflowResumes)

---------------------------------------------------------------------------
(* Properties of the gate evaluation (GateSpec) *)

Evaluated == eval_out # Unbound

EvalType == eval_in.agent_type

EvalResult == eval_in.agent_result

\* C3: a result whose quality_score is below the gate's required_score
\* yields passed = False, whatever the other fields of the result are.
C3_LowScoreYieldsFalse ==
    (Evaluated /\ EvalResult.quality_score.n < required_score[EvalType])
        => eval_out = PyBool(FALSE)

\* the entry <<key, sub-key>> read by the criteria check is absent
KeyAbsent(agent_type, out, slot) ==
    LET key == CriteriaKeys[agent_type][slot][1]
        sub == CriteriaKeys[agent_type][slot][2]
    IN \/ key \notin DOMAIN out.d
       \/ /\ sub # ""
          /\ out.d[key].tag = "dict"
          /\ sub \notin DOMAIN out.d[key].d

EvalScoreOk == Truthy(ScorePassed(EvalType, EvalResult))

EvalCriteriaOk == Truthy(CriteriaPassed(EvalType, EvalResult))

EvalNonCompliant == ~Truthy(EvalResult.medical_compliance)

\* C4: the compliance check fails the gate exactly when the flag is set and
\* medical_compliance is false: then the gate fails even when the score and
\* criteria checks pass; with the flag unset the evaluation of the same
\* result with medical_compliance negated has the same outcome.
C4_ComplianceCheck ==
    Evaluated =>
      /\ (medical_compliance_required /\ EvalNonCompliant)
            => ~Truthy(eval_out)
      /\ (EvalScoreOk /\ EvalCriteriaOk)
            => /\ Truthy(eval_out)
                    <=> ~(medical_compliance_required /\ EvalNonCompliant)
               /\ ~Truthy(eval_out) => eval_out = PyBool(FALSE)
      /\ ~medical_compliance_required
            => eval_out =
                 GatePassed(EvalType,
                     [EvalResult EXCEPT
                        !.medical_compliance = PyBool(EvalNonCompliant)],
                     FALSE)

C4_Witness ==
    /\ Evaluated
    /\ medical_compliance_required
    /\ EvalNonCompliant
    /\ EvalScoreOk
    /\ EvalCriteriaOk
    /\ eval_out = PyBool(FALSE)

\* C5: when an entry read by the criteria check of the agent type is absent
\* from the output, the gate does not pass.
C5_MissingKeyNeverPasses ==
    (/\ Evaluated
     /\ \/ KeyAbsent(EvalType, EvalResult.output, 1)
        \/ KeyAbsent(EvalType, EvalResult.output, 2))
        => ~Truthy(eval_out)

C5_Witness ==
    /\ Evaluated
    /\ EvalType = "security"
    /\ ~KeyAbsent(EvalType, EvalResult.output, 1)
    /\ KeyAbsent(EvalType, EvalResult.output, 2)
    /\ EvalScoreOk
    /\ ~EvalNonCompliant
    /\ Truthy(PyGet(PyGet(EvalResult.output, "hipaa_compliance", PyNone),
                    "educational_data_protection", PyNone))
    /\ eval_out = PyBool(FALSE)

---------------------------------------------------------------------------
(* Properties of the workflows (Spec) *)

IsSequential ==
    /\ "workflow_type" \in DOMAIN workflow_results
    /\ workflow_results.workflow_type = "sequential"

IsParallel ==
    /\ "workflow_type" \in DOMAIN workflow_results
    /\ workflow_results.workflow_type = "parallel"

\* _execute_agent was called for a in this run
Executed(a) == tasks[a].state # "idle"

\* the gate of a was evaluated in this run and did not pass
GateFailedAt(a) ==
    /\ evaluated[a] # Unbound
    /\ ~IsRaise(evaluated[a])
    /\ ~Truthy(evaluated[a])

\* the set of the members of a sequence of agent types
Members(agents) == {agents[i] : i \in 1..Len(agents)}

\* the status under which a appears in the record, "absent" if it does not
RecordStatus(a) ==
    IF IsSequential
    THEN IF a \in DOMAIN workflow_results.agents
         THEN workflow_results.agents[a].status ELSE "absent"
    ELSE LET phase == IF a \in Members(independent_agents) THEN "independent"
                      ELSE IF a \in Members(coordinated_agents)
                           THEN "coordinated" ELSE "integration"
         IN IF a \in DOMAIN workflow_results.phases[phase]
            THEN workflow_results.phases[phase][a].agent_result.status
            ELSE "absent"

\* C1: in the sequential workflow, once the agent at position i has failed
\* its gate no agent at a later position is ever executed, and the record is
\* returned with overall_success = False.
C1_SequentialHaltsOnGateFailure ==
    IsSequential =>
      \A i \in 1..Len(execution_order) :
        GateFailedAt(execution_order[i]) =>
          /\ \A j \in (i + 1)..Len(execution_order) :
                ~Executed(execution_order[j])
          /\ pc = "returned"
          /\ workflow_results.overall_success = FALSE

C1_Witness ==
    /\ IsSequential
    /\ pc = "returned"
    /\ GateFailedAt(execution_order[2])
    /\ Executed(execution_order[1])
    /\ ~Executed(execution_order[3])
    /\ workflow_results.overall_success = FALSE

AllEvaluatedGatesPassed ==
    \A a \in AgentType : evaluated[a] # Unbound => Truthy(evaluated[a])

\* C2 as stated: in a returned record overall_success is true if and only if
\* every gate evaluated during the run passed.
C2_SuccessIffAllGatesPassed ==
    pc = "returned" =>
      (workflow_results.overall_success <=> AllEvaluatedGatesPassed)

\* C2 amended: in a returned record overall_success is true if and only if
\* no worker raised and every gate evaluated during the run passed.
C2_SuccessIffNoRaiseAndAllGatesPassed ==
    pc = "returned" =>
      (workflow_results.overall_success
          <=> /\ \A a \in AgentType : tasks[a].state # "raised"
              /\ AllEvaluatedGatesPassed)

C2_Witness ==
    /\ pc = "returned"
    /\ IsParallel
    /\ \E a \in AgentType : tasks[a].state = "raised"
    /\ \E a \in AgentType : evaluated[a] # Unbound
    /\ AllEvaluatedGatesPassed
    /\ workflow_results.overall_success = FALSE

\* the loop over the results of the group was entered
GroupProcessed(agents) ==
    /\ IsParallel
    /\ \A a \in Members(agents) : Executed(a)
    /\ pc \notin {IF agents = independent_agents THEN "p1_gather"
                  ELSE "p2_gather"}

\* a returned a result, its gate was evaluated and both are in the record
GatedAndRecorded(phase, a) ==
    /\ tasks[a].state = "returned"
    /\ evaluated[a] # Unbound
    /\ ~IsRaise(evaluated[a])
    /\ a \in DOMAIN workflow_results.phases[phase]
    /\ workflow_results.phases[phase][a].agent_result = tasks[a].result
    /\ workflow_results.phases[phase][a].quality_gate.passed = evaluated[a]

\* C6: when a member of a parallel group raises, every other member of the
\* group still reaches a terminal state and, if it returned a result, has
\* its gate evaluated and its result and gate outcome written to the record.
C6_SiblingsOfRaisedMemberGated ==
    \A phase \in {"independent", "coordinated"} :
      LET agents == IF phase = "independent" THEN independent_agents
                    ELSE coordinated_agents
      IN GroupProcessed(agents) =>
           \A a, b \in Members(agents) :
             (a # b /\ tasks[a].state = "raised") =>
                \/ tasks[b].state = "raised"
                \/ GatedAndRecorded(phase, b)

\* C7: a coordinated agent is executed only if every independent agent
\* returned a result and passed its gate; the integration agent only if in
\* addition every coordinated agent returned a result and passed its gate.
C7_PhaseRequiresPreviousPhase ==
    IsParallel =>
      /\ (\E b \in Members(coordinated_agents) : Executed(b))
            => \A a \in Members(independent_agents) :
                  tasks[a].state = "returned" /\ Truthy(evaluated[a])
      /\ (\E c \in Members(integration_agents) : Executed(c))
            => \A a \in Members(independent_agents)
                        \cup Members(coordinated_agents) :
                  tasks[a].state = "returned" /\ Truthy(evaluated[a])

C7_Witness ==
    /\ IsParallel
    /\ Executed("architecture")
    /\ \A a \in Members(coordinated_agents) : Truthy(evaluated[a])

\* a returned a result that forwards the key "x"
ForwardsX(a) ==
    /\ tasks[a].state = "returned"
    /\ tasks[a].result.next_agent_inputs.tag = "dict"
    /\ "x" \in DOMAIN tasks[a].result.next_agent_inputs.d

ForwardedX(a) == tasks[a].result.next_agent_inputs.d["x"]

\* C8 as stated: when two independent agents forward the key "x" with
\* different values, the context given to every coordinated agent maps "x"
\* to the value of the later-declared one.
C8_LaterDeclaredWins ==
    IsParallel =>
      \A b \in Members(coordinated_agents) :
        Executed(b) =>
          \A i, j \in 1..Len(independent_agents) :
            (/\ i < j
             /\ ForwardsX(independent_agents[i])
             /\ ForwardsX(independent_agents[j])
             /\ ForwardedX(independent_agents[i])
                   # ForwardedX(independent_agents[j])
             /\ \A k \in (j + 1)..Len(independent_agents) :
                   ~ForwardsX(independent_agents[k]))
              => /\ "x" \in DOMAIN tasks[b].context.d
                 /\ tasks[b].context.d["x"] = ForwardedX(independent_agents[j])

\* the forwarded contexts of the gate-passing members of a group, each under
\* the name of its agent
ContextByAgent(agents) ==
    PyDict([a \in {m \in Members(agents) : Truthy(evaluated[m])} |->
               tasks[a].result.next_agent_inputs])

\* C8 amended: the context given to the agents of the next phase maps the
\* name of every gate-passing agent of the phase to the whole forwarded
\* context of that agent, so forwarded keys of different agents never collide.
C8_MergedByAgentName ==
    IsParallel =>
      /\ \A b \in Members(coordinated_agents) :
            Executed(b) => tasks[b].context = ContextByAgent(independent_agents)
      /\ \A c \in Members(integration_agents) :
            Executed(c) => tasks[c].context = ContextByAgent(coordinated_agents)

C8_Witness ==
    /\ IsParallel
    /\ \A b \in Members(coordinated_agents) : Executed(b)
    /\ ForwardsX("code-quality")
    /\ ForwardsX("ui-ux")
    /\ ForwardedX("code-quality") # ForwardedX("ui-ux")
    /\ tasks["testing"].context.d["code-quality"].d["x"]
          = ForwardedX("code-quality")
    /\ tasks["testing"].context.d["ui-ux"].d["x"] = ForwardedX("ui-ux")
    /\ "x" \notin DOMAIN tasks["testing"].context.d

\* C9: in a returned record every agent type that was never executed appears
\* with status blocked.
C9_UnexecutedReportedBlocked ==
    pc = "returned" =>
      \A a \in AgentType : ~Executed(a) => RecordStatus(a) = "blocked"

\* C10: in a returned parallel record a member of a parallel group that
\* raised appears under its phase with status failed, and overall_success is
\* false.
C10_RaisedMemberRecordedFailed ==
    (pc = "returned" /\ IsParallel) =>
      \A a \in Members(independent_agents) \cup Members(coordinated_agents) :
        tasks[a].state = "raised" =>
          /\ RecordStatus(a) = "failed"
          /\ workflow_results.overall_success = FALSE

\* the run is over: the record was returned or an exception left the workflow
Finished == pc \in {"returned", "raised"}

\* no gate evaluation of the run raised
NoGateRaised == \A a \in AgentType : ~IsRaise(evaluated[a])

\* C11: in the sequential workflow, when a worker raises, the run halts as on
\* a gate failure: the record is returned with end_time set and
\* overall_success = False, the raising worker is recorded as failed, no
\* later worker is executed and the exception does not leave the workflow.
C11_SequentialWorkerRaiseHalts ==
    IsSequential =>
      \A i \in 1..Len(execution_order) :
        (tasks[execution_order[i]].state = "raised" /\ pc # "seq_await") =>
          /\ pc = "returned"
          /\ "end_time" \in DOMAIN workflow_results
          /\ workflow_results.overall_success = FALSE
          /\ RecordStatus(execution_order[i]) = "failed"
          /\ \A j \in (i + 1)..Len(execution_order) :
                ~Executed(execution_order[j])

\* C12: in the parallel workflow, when a worker of any of the three phases
\* raises (and no gate evaluation does), the run still ends with a returned
\* record whose overall_success is False: the worker's exception does not
\* leave the workflow.
C12_ParallelWorkerRaiseReturnsRecord ==
    (IsParallel /\ Finished /\ NoGateRaised) =>
      \A a \in AgentType :
        tasks[a].state = "raised" =>
          /\ pc = "returned"
          /\ workflow_results.overall_success = FALSE

---------------------------------------------------------------------------
(* Properties of runs on a coordinator whose registry lacks a gate         *)
(* (ConfigSpec)                                                            *)

\* the phase of the parallel workflow an agent type belongs to
PhaseNumber(a) ==
    IF a \in Members(independent_agents) THEN 1
    ELSE IF a \in Members(coordinated_agents) THEN 2 ELSE 3

\* the agent types of a later stage (sequential) or phase (parallel) than a
LaterThan(a) ==
    IF IsSequential
    THEN {b \in AgentType : Position(b) > Position(a)}
    ELSE {b \in AgentType : PhaseNumber(b) > PhaseNumber(a)}

---------------------------------------------------------------------------
(* Properties of a run on a coordinator that was used before (RerunSpec)   *)

\* the (agent type, result, gate snapshot) triples stored in the record
RecordedOutcomes ==
    IF IsSequential
    THEN {<<a, workflow_results.agents[a], workflow_results.quality_gates[a]>> :
             a \in DOMAIN workflow_results.quality_gates}
    ELSE IF IsParallel
    THEN UNION {
           {<<a, workflow_results.phases[ph][a].agent_result,
                 workflow_results.phases[ph][a].quality_gate>> :
               a \in DOMAIN workflow_results.phases[ph]} :
           ph \in {"independent", "coordinated", "integration"}}
    ELSE {}

\* C14: the gate outcome recorded for a worker is determined by the worker's
\* result, the gate definition and the compliance-required flag alone: it is
\* the value the three checks yield on the recorded result, whatever passed
\* value an earlier evaluation left on the shared gate object.
C14_OutcomeIndependentOfStaleGate ==
    \A o \in RecordedOutcomes :
       /\ o[3].passed = GatePassed(o[1], o[2], medical_compliance_required)
       /\ o[3].required_score = required_score[o[1]]
       /\ o[3].gate_name = gate_name[o[1]]

\* a gate that passed in an earlier run was evaluated again and failed
C14_Witness ==
    /\ pc = "returned"
    /\ IsSequential
    /\ ~Executed("architecture")
    /\ Truthy(quality_gates["architecture"].passed)
    /\ "ui-ux" \in DOMAIN workflow_results.quality_gates
    /\ workflow_results.quality_gates["ui-ux"].passed = PyBool(FALSE)
    /\ quality_gates["ui-ux"].passed = PyBool(FALSE)

---------------------------------------------------------------------------
(* Properties of execute_feedback_loop (Spec) *)

\* execute_feedback_loop was called on the returned record
FeedbackDone == feedback_analysis # EmptyDict

\* the <<agent_name, phase_name>> entries of failed_gates
ListedFailedGates ==
    LET listed == feedback_analysis.workflow_analysis.failed_gates
    IN {listed[i] : i \in 1..Len(listed)}

\* the phase of the parallel record an agent type is stored under
PhaseOf(a) == PhaseNames[PhaseNumber(a)]

\* C15: for a record of either workflow whose overall_success is False, the
\* failed gates listed by execute_feedback_loop name exactly the workers
\* whose recorded gate outcome has a false passed, each (in a parallel
\* record) with its phase.
C15_FailedGatesListed ==
    (FeedbackDone /\ ~workflow_results.overall_success) =>
       /\ \A a \in AgentType :
            (\E o \in RecordedOutcomes : o[1] = a /\ ~Truthy(o[3].passed))
               <=> (\E e \in ListedFailedGates : e[1] = a)
       /\ IsParallel => \A e \in ListedFailedGates : e[2] = PhaseOf(e[1])

\* the statistics of an agent result as execute_feedback_loop reports them
Statistics(agent_result) ==
    [quality_score |-> agent_result.quality_score,
     execution_time |-> agent_result.execution_time,
     medical_compliance |-> agent_result.medical_compliance,
     recommendations_count |-> PyNum(agent_result.recommendations.n)]

\* C16: for a record of either workflow, agent_performance has an entry
\* (quality score, execution time, compliance flag, recommendation count)
\* for every worker whose result is in the record, and for no worker that
\* was not executed in the run.
C16_PerformanceForExecutedWorkers ==
    FeedbackDone =>
       /\ \A o \in RecordedOutcomes :
            /\ o[1] \in DOMAIN feedback_analysis.agent_performance
            /\ feedback_analysis.agent_performance[o[1]] = Statistics(o[2])
       /\ \A a \in DOMAIN feedback_analysis.agent_performance : Executed(a)

\* C17: a call of execute_feedback_loop changes neither the record it is
\* given nor the coordinator (gates, compliance flag), and a further call on
\* the same record returns the same workflow analysis (status, failed
\* gates) and the same per-worker statistics as the call before, although
\* the clock has advanced.
C17_FeedbackDeterministicReadOnly ==
    [][feedback_analysis' # feedback_analysis =>
          /\ workflow_results' = workflow_results
          /\ quality_gates' = quality_gates
          /\ medical_compliance_required' = medical_compliance_required
          /\ FeedbackDone =>
               /\ feedback_analysis'.feedback_timestamp
                     # feedback_analysis.feedback_timestamp
               /\ feedback_analysis'.workflow_analysis
                     = feedback_analysis.workflow_analysis
               /\ feedback_analysis'.agent_performance
                     = feedback_analysis.agent_performance]_vars

\* a second call was made on a failed record
C17_Witness ==
    /\ FeedbackDone
    /\ feedback_analysis.feedback_timestamp = 2
    /\ IsParallel
    /\ ListedFailedGates # {}
    /\ workflow_results.overall_success = FALSE

\* C18: execute_feedback_loop reports the status "successful" if and only if
\* the record's overall_success is true, and "needs_improvement" otherwise;
\* it always emits the same fixed list of five improvement recommendations.
C18_StatusFollowsOverallSuccess ==
    FeedbackDone =>
       /\ feedback_analysis.workflow_analysis.status = "successful"
             <=> workflow_results.overall_success
       /\ feedback_analysis.workflow_analysis.status
             \in {"successful", "needs_improvement"}
       /\ feedback_analysis.improvement_recommendations
             = ImprovementRecommendations
       /\ Len(feedback_analysis.improvement_recommendations) = 5

\* the feedback on a failed sequential run
C18_Witness ==
    /\ FeedbackDone
    /\ IsSequential
    /\ workflow_results.overall_success = FALSE
    /\ feedback_analysis.workflow_analysis.status = "needs_improvement"

---------------------------------------------------------------------------
(* Further properties of the sequential workflow (Spec) *)

\* a returned a result on which the three checks of its gate pass
GateSatisfied(a) ==
    /\ tasks[a].state = "returned"
    /\ Truthy(GatePassed(a, tasks[a].result, medical_compliance_required))

\* C19: in the sequential workflow the workers are called in the fixed
\* order, each at most once; when every worker called returned a result that
\* satisfies its gate, the finished run has called every worker of the
\* order exactly once, records each as completed with a passed gate, and
\* returns the record with overall_success = True.
C19_AllPassRunsEveryWorkerOnce ==
    IsSequential =>
      /\ dispatch_log = SubSeq(execution_order, 1, Len(dispatch_log))
      /\ (Finished /\ \A a \in AgentType : Executed(a) => GateSatisfied(a)) =>
            /\ pc = "returned"
            /\ dispatch_log = execution_order
            /\ \A a \in AgentType :
                  /\ RecordStatus(a) = "completed"
                  /\ a \in DOMAIN workflow_results.quality_gates
                  /\ Truthy(workflow_results.quality_gates[a].passed)
            /\ workflow_results.overall_success = TRUE
            /\ "end_time" \in DOMAIN workflow_results

C19_Witness ==
    /\ IsSequential
    /\ pc = "returned"
    /\ \A a \in AgentType : GateSatisfied(a)
    /\ dispatch_log = execution_order
    /\ workflow_results.overall_success = TRUE

\* C20: in the sequential workflow the first worker is called with the empty
\* context and every later worker with exactly the next_agent_inputs of the
\* worker just before it, which passed its gate: nothing forwarded by an
\* earlier worker, and nothing of a worker that failed its gate, is in it.
C20_ContextIsPredecessorsForward ==
    IsSequential =>
      \A i \in 1..Len(execution_order) :
        Executed(execution_order[i]) =>
          IF i = 1
          THEN tasks[execution_order[i]].context = PyDict(EmptyDict)
          ELSE /\ tasks[execution_order[i]].context
                    = tasks[execution_order[i - 1]].result.next_agent_inputs
               /\ Truthy(evaluated[execution_order[i - 1]])

\* the third worker is called with the context of the second, without the
\* key the first one forwarded
C20_Witness ==
    /\ IsSequential
    /\ ForwardsX(execution_order[1])
    /\ ~ForwardsX(execution_order[2])
    /\ Executed(execution_order[3])
    /\ "x" \notin DOMAIN tasks[execution_order[3]].context.d
    /\ tasks[execution_order[3]].context
          = tasks[execution_order[2]].result.next_agent_inputs

---------------------------------------------------------------------------
(* Further properties of the parallel workflow (Spec) *)

\* the agent types whose forwarded context is in the context a was called
\* with
ContextSources(a) == DOMAIN tasks[a].context.d

\* the members of a group that returned a result and passed their gate
PassedMembers(agents) ==
    {m \in Members(agents) :
        tasks[m].state = "returned" /\ Truthy(evaluated[m])}

\* C21: a coordinated agent is called with a context that holds the
\* forwarded context of every independent agent that passed its gate and of
\* no other agent; the integration agent with one that holds the forwarded
\* context of every coordinated agent that passed its gate and of no other
\* agent, in particular of no independent agent.
C21_ContextHoldsPreviousPhaseOnly ==
    IsParallel =>
      /\ \A b \in Members(coordinated_agents) :
            Executed(b) =>
              /\ ContextSources(b) = PassedMembers(independent_agents)
              /\ \A a \in ContextSources(b) :
                    tasks[b].context.d[a] = tasks[a].result.next_agent_inputs
      /\ \A c \in Members(integration_agents) :
            Executed(c) =>
              /\ ContextSources(c) = PassedMembers(coordinated_agents)
              /\ ContextSources(c) \cap Members(independent_agents) = {}
              /\ \A b \in ContextSources(c) :
                    tasks[c].context.d[b] = tasks[b].result.next_agent_inputs

\* the integration agent was called with the three coordinated contexts
C21_Witness ==
    /\ IsParallel
    /\ Executed("architecture")
    /\ ContextSources("architecture") = Members(coordinated_agents)
    /\ ContextSources("testing") = Members(independent_agents)

---------------------------------------------------------------------------
(* Properties of the returned record (Spec) *)

\* the workers that returned a result in this run
ReturnedWorkers == {a \in AgentType : tasks[a].state = "returned"}

\* C22: a returned record holds a worker result together with a gate outcome
\* for exactly the workers that returned a result: in the sequential record
\* agents and quality_gates have the same keys; in the parallel record each
\* worker is stored under the phase it belongs to only, with an agent_result
\* and a quality_gate entry.
C22_ResultAndGateForReturnedWorkers ==
    pc = "returned" =>
      /\ IsSequential =>
           /\ DOMAIN workflow_results.agents
                 = DOMAIN workflow_results.quality_gates
           /\ DOMAIN workflow_results.agents = ReturnedWorkers
      /\ IsParallel =>
           /\ DOMAIN workflow_results.phases
                 = {"independent", "coordinated", "integration"}
           /\ \A i \in 1..Len(PhaseNames) :
                LET stored == workflow_results.phases[PhaseNames[i]]
                IN /\ DOMAIN stored
                         = ReturnedWorkers
                             \cap Members(PhaseAgents(PhaseNames[i]))
                   /\ \A a \in DOMAIN stored :
                         DOMAIN stored[a] = {"agent_result", "quality_gate"}

\* a parallel record with a raised and a returned member in one phase
C22_Witness ==
    /\ pc = "returned"
    /\ IsParallel
    /\ tasks["code-quality"].state = "raised"
    /\ DOMAIN workflow_results.phases["independent"]
          = {"ui-ux", "performance"}

---------------------------------------------------------------------------
(* Further properties of the gate evaluation (GateSpec) *)

\* isinstance(v, bool)
IsBoolean(v) == v.tag = "bool"

\* C23: the passed value that _validate_quality_gate assigns is a boolean
\* for every agent type and payload, never a mapping, a sequence, a string
\* or None taken from the payload.
C23_PassedIsBoolean ==
    (Evaluated /\ ~IsRaise(eval_out)) =>
       /\ IsBoolean(eval_out)
       /\ IsBoolean(quality_gates[EvalType].passed)

---------------------------------------------------------------------------
(* Further properties of the worker results and the record (Spec) *)

\* C24: every result that _execute_agent returned, and every result stored
\* in the record, has the status completed or failed, never pending or
\* in_progress.
C24_RecordedStatusTerminal ==
    /\ \A a \in ReturnedWorkers :
          tasks[a].result.status \in {"completed", "failed"}
    /\ \A o \in RecordedOutcomes :
          o[2].status \in {"completed", "failed"}

\* a stored result of a worker whose gate failed
C24_Witness ==
    /\ pc = "returned"
    /\ \E o \in RecordedOutcomes :
          o[2].status = "completed" /\ ~Truthy(o[3].passed)

---------------------------------------------------------------------------
(* The gather barrier (Spec) *)

\* a member of the group is still running
InFlight(agents) == \E a \in Members(agents) : tasks[a].state = "running"

\* C25: while a member of a parallel group is still running, no gate of the
\* group has been evaluated, nothing has been written to the record since
\* the group was called, and no agent of a later phase has been called.
C25_NothingBeforeGroupDone ==
    IsParallel =>
      /\ InFlight(independent_agents) =>
           /\ \A a \in Members(independent_agents) : evaluated[a] = Unbound
           /\ workflow_results = ParallelRecord
           /\ \A b \in Members(coordinated_agents)
                         \cup Members(integration_agents) : ~Executed(b)
           /\ pc = "p1_gather"
      /\ InFlight(coordinated_agents) =>
           /\ \A b \in Members(coordinated_agents) : evaluated[b] = Unbound
           /\ workflow_results.phases["coordinated"] = EmptyDict
           /\ workflow_results.phases["integration"] = EmptyDict
           /\ workflow_results.overall_success = TRUE
           /\ "end_time" \notin DOMAIN workflow_results
           /\ \A c \in Members(integration_agents) : ~Executed(c)
           /\ pc = "p2_gather"

\* two coordinated agents are done, one with a failing result, and the third
\* is still running
C25_Witness ==
    /\ IsParallel
    /\ tasks["testing"].state = "raised"
    /\ tasks["security"].state = "returned"
    /\ ~Truthy(GatePassed("security", tasks["security"].result,
                          medical_compliance_required))
    /\ tasks["devops"].state = "running"
    /\ workflow_results.phases["coordinated"] = EmptyDict

\* C26: the members of a parallel group are all called with the same
\* context: every independent agent with the empty one, the coordinated
\* agents with one and the same merged context, which has no entry of a
\* coordinated agent.
C26_GroupSharesOneContext ==
    IsParallel =>
      /\ \A a \in Members(independent_agents) :
            Executed(a) => tasks[a].context = PyDict(EmptyDict)
      /\ \A b \in Members(coordinated_agents) :
            Executed(b) =>
              /\ \A b2 \in Members(coordinated_agents) :
                    /\ Executed(b2)
                    /\ tasks[b2].context = tasks[b].context
              /\ tasks[b].context = coordination_context
              /\ ContextSources(b) \cap Members(coordinated_agents) = {}

\* the coordinated agents were called with a non-empty context and two of
\* them are done
C26_Witness ==
    /\ IsParallel
    /\ pc = "p2_gather"
    /\ ContextSources("devops") = Members(independent_agents)
    /\ tasks["testing"].state = "returned"
    /\ tasks["security"].state = "returned"
    /\ tasks["devops"].state = "running"

---------------------------------------------------------------------------
(* Workers that write to their context (SharedSpec) *)

\* C27: what a coordinated worker writes to the context it was given is
\* never in the context of another worker of the group: a running
\* coordinated worker finds in its context no entry written by a sibling.
C27_SiblingWritesInvisible ==
    IsParallel =>
      \A b \in Members(coordinated_agents) :
        (tasks[b].state = "running" /\ "w" \in ContextSources(b))
           => tasks[b].context.d["w"] = PyNum(Position(b))

---------------------------------------------------------------------------
(* Gate failures in the record (Spec) *)

\* C28: in both workflows a worker that returned a result and failed its
\* gate is in the record with its whole result (status completed) and a
\* gate outcome whose passed is false, unlike a worker that never ran, which
\* is not in the record; its forwarded context is given to no other worker.
C28_GateFailedWorkerRecorded ==
    \A a \in AgentType :
      /\ GateFailedAt(a) =>
           /\ \E o \in RecordedOutcomes :
                 /\ o[1] = a
                 /\ o[2] = tasks[a].result
                 /\ o[2].status = "completed"
                 /\ o[3].passed = evaluated[a]
                 /\ ~Truthy(o[3].passed)
           /\ \A b \in AgentType \ {a} :
                 Executed(b) =>
                    /\ a \notin ContextSources(b)
                    /\ IsSequential => Position(b) < Position(a)
      /\ ~Executed(a) => \A o \in RecordedOutcomes : o[1] # a

\* two independent agents failed their gates, the third passed
C28_Witness ==
    /\ IsParallel
    /\ pc = "returned"
    /\ GateFailedAt("code-quality")
    /\ GateFailedAt("performance")
    /\ Truthy(evaluated["ui-ux"])
    /\ DOMAIN workflow_results.phases["independent"]
          = Members(independent_agents)
    /\ ~Executed("testing")

---------------------------------------------------------------------------
(* The order of the calls (Spec) *)

\* the sequence has no element twice
NoRepeat(seq) ==
    \A i, j \in 1..Len(seq) : seq[i] = seq[j] => i = j

\* C29: in a run of either workflow every agent type is called at most once;
\* the sequential workflow calls them in the order code-quality, ui-ux,
\* performance, testing, security, devops, architecture, so the agent types
\* executed are always a prefix of that order.
C29_AtMostOnceInFixedOrder ==
    LET fixed == <<"code-quality", "ui-ux", "performance", "testing",
                   "security", "devops", "architecture">>
    IN /\ NoRepeat(dispatch_log)
       /\ {a \in AgentType : Executed(a)} = Members(dispatch_log)
       /\ IsSequential =>
            /\ Len(dispatch_log) <= Len(fixed)
            /\ dispatch_log = SubSeq(fixed, 1, Len(dispatch_log))
            /\ \A i \in 1..Len(fixed) :
                  Executed(fixed[i]) => \A j \in 1..i : Executed(fixed[j])

\* a sequential run that was stopped by the fourth gate
C29_Witness ==
    /\ IsSequential
    /\ pc = "returned"
    /\ dispatch_log = <<"code-quality", "ui-ux", "performance", "testing">>
    /\ GateFailedAt("testing")

---------------------------------------------------------------------------
(* A returned record and later operations (RerunSpec) *)

\* a stored gate outcome as its holder reads it
GateOutcomeRead(a, outcome) ==
    IF outcome.passed = SharedField /\ a \in DOMAIN quality_gates
    THEN [outcome EXCEPT !.passed = quality_gates[a].passed]
    ELSE outcome

\* the record of the earlier run as its holder reads it
EarlierRecordRead ==
    [earlier_record EXCEPT
        !.quality_gates =
            [a \in DOMAIN @ |-> GateOutcomeRead(a, @[a])]]

\* C30: no later operation on the coordinator (starting and performing
\* another run, which re-evaluates the shared gates, or a feedback analysis)
\* changes anything the holder of an earlier returned record reads in it
C30_ReturnedRecordNeverChanges ==
    [][EarlierRecordRead' = EarlierRecordRead]_vars

\* a later run has re-evaluated a gate to the opposite of the outcome the
\* earlier record holds, returned, and was analysed
C30_Witness ==
    /\ pc = "returned"
    /\ FeedbackDone
    /\ "code-quality" \in DOMAIN workflow_results.quality_gates
    /\ Truthy(EarlierRecordRead.quality_gates["code-quality"].passed)
    /\ ~Truthy(quality_gates["code-quality"].passed)
    /\ ~Truthy(workflow_results.quality_gates["code-quality"].passed)

---------------------------------------------------------------------------
(* Two runs interleaved on one coordinator (InterleavedSpec) *)

\* C31: with another run evaluating the same shared gates at every point
\* where this run is suspended, each outcome in this run's record is the
\* value the checks yield on this run's own worker result, and this run's
\* halt decision follows that value: after an own failure nothing later is
\* called and the record says so, and a sequential run whose own outcomes
\* all pass calls all seven workers and returns overall_success true
C31_InterleavedRunsUseOwnOutcome ==
    /\ \A o \in RecordedOutcomes :
          LET own == GatePassed(o[1], o[2], medical_compliance_required)
          IN /\ o[3].passed = own
             /\ ~Truthy(own) =>
                   /\ workflow_results.overall_success = FALSE
                   /\ \A b \in LaterThan(o[1]) : ~Executed(b)
    /\ (/\ IsSequential
        /\ pc = "returned"
        /\ \A o \in RecordedOutcomes :
              Truthy(GatePassed(o[1], o[2], medical_compliance_required)))
       => /\ workflow_results.overall_success = TRUE
          /\ \A a \in AgentType : a \in DOMAIN workflow_results.agents

\* this run recorded a pass for a gate and went on to the end, while the
\* shared gate object holds the failure the other run evaluated
C31_Witness ==
    /\ IsSequential
    /\ pc = "returned"
    /\ workflow_results.overall_success = TRUE
    /\ Truthy(workflow_results.quality_gates["testing"].passed)
    /\ quality_gates["testing"].passed = PyBool(FALSE)

---------------------------------------------------------------------------
(* The simulated workers and the gates as shipped (Spec) *)

\* every worker that terminated so far returned the payload of its
\* simulated implementation
OnlyBuiltinResults ==
    \A a \in AgentType :
       /\ tasks[a].state # "raised"
       /\ tasks[a].state = "returned" =>
             tasks[a].result = AgentResult(a, BuiltinOutput(a))

\* C32: with the simulated workers and the gates as shipped, every gate
\* evaluated passes and overall_success stays true; the returned record of
\* either workflow holds all seven workers, the parallel one with its three
\* phases populated by their members
C32_BuiltinRunSucceeds ==
    (OnlyBuiltinResults /\ pc # "idle") =>
       /\ pc # "raised"
       /\ workflow_results.overall_success = TRUE
       /\ \A o \in RecordedOutcomes : Truthy(o[3].passed)
       /\ pc = "returned" =>
             /\ {o[1] : o \in RecordedOutcomes} = AgentType
             /\ \A a \in AgentType : tasks[a].state = "returned"
             /\ IsParallel =>
                   /\ DOMAIN workflow_results.phases.independent
                         = Members(independent_agents)
                   /\ DOMAIN workflow_results.phases.coordinated
                         = Members(coordinated_agents)
                   /\ DOMAIN workflow_results.phases.integration
                         = Members(integration_agents)

\* the parallel workflow returned after seven simulated results
C32_Witness ==
    /\ IsParallel
    /\ pc = "returned"
    /\ OnlyBuiltinResults
    /\ workflow_results.overall_success = TRUE
    /\ \A a \in AgentType : tasks[a].state = "returned"

\* the sequential workflow returned after seven simulated results
C32_WitnessSequential ==
    /\ IsSequential
    /\ pc = "returned"
    /\ OnlyBuiltinResults
    /\ DOMAIN workflow_results.agents = AgentType

---------------------------------------------------------------------------
(* Termination (LiveSpec) *)

\* C33: when every dispatched worker eventually returns or raises, a started
\* workflow of either kind eventually finishes, by returning its record or
\* by raising, and it never has dispatched more than seven workers
C33_WorkflowTerminates ==
    /\ (pc # "idle") ~> Finished
    /\ [](Len(dispatch_log) <= Cardinality(AgentType))

\* a parallel run returned its record after a member of its second group
\* raised, six workers having been dispatched
C33_Witness ==
    /\ IsParallel
    /\ pc = "returned"
    /\ tasks["testing"].state = "raised"
    /\ Len(dispatch_log) = 6

---------------------------------------------------------------------------
(* The integration phase of the parallel workflow (Spec) *)

\* C34: in a parallel run the integration worker is dispatched only after
\* the coordinated phase was executed and processed: every coordinated
\* worker was called and terminated, and the context the integration worker
\* is given is the assigned integration_context, built from the forwards of
\* the coordinated workers
C34_IntegrationOnlyAfterCoordinated ==
    (IsParallel /\ Executed("architecture")) =>
       /\ \A a \in Members(coordinated_agents) :
             /\ tasks[a].state = "returned"
             /\ a \in DOMAIN workflow_results.phases.coordinated
       /\ integration_context # Unbound
       /\ tasks["architecture"].context = integration_context
       /\ integration_context.d =
             [a \in Members(coordinated_agents) |->
                 tasks[a].result.next_agent_inputs]

\* the integration worker is running in a parallel run
C34_Witness ==
    /\ IsParallel
    /\ pc = "p3_await"
    /\ tasks["architecture"].state = "running"
    /\ integration_context # Unbound

---------------------------------------------------------------------------
(* The record's own medical_compliance field (Spec) *)

\* the results stored in the record that report medical_compliance false
NonCompliantRecorded ==
    {o \in RecordedOutcomes : ~Truthy(o[2].medical_compliance)}

\* C35: the top-level medical_compliance of a run record is true from its
\* creation on, in particular in every returned record, whatever the
\* workers' results report
C35_RecordComplianceAlwaysTrue ==
    (pc # "idle" /\ workflow_results # EmptyDict) =>
        workflow_results.medical_compliance = TRUE

\* a sequential run returned after a worker reported medical_compliance
\* false and failed its gate
C35_Witness ==
    /\ IsSequential
    /\ pc = "returned"
    /\ workflow_results.overall_success = FALSE
    /\ \E o \in NonCompliantRecorded : ~Truthy(o[3].passed)

\* the same in a parallel run
C35_WitnessParallel ==
    /\ IsParallel
    /\ pc = "returned"
    /\ workflow_results.overall_success = FALSE
    /\ \E o \in NonCompliantRecorded : ~Truthy(o[3].passed)

---------------------------------------------------------------------------
(* The defaults of _execute_agent (DefaultsSpec) *)

\* _execute_agent has returned its AgentResult
ResultBuilt == "agent_result" \in DOMAIN eval_in

\* the key k is missing from the output the worker returned
Omitted(k) == k \notin DOMAIN eval_in.agent_result.output.d

\* the gate evaluation of that result has been made
GateEvaluated == ResultBuilt /\ eval_out # Unbound

\* C36: in the result _execute_agent builds, a quality_score missing from
\* the output is 0, and the gate of every agent type then fails; a missing
\* medical_compliance is True, and the gate then passes on an otherwise
\* sufficient output even with the compliance-required flag set; missing
\* recommendations are an empty list, missing next_agent_inputs an empty dict
C36_ExecuteAgentDefaults ==
    ResultBuilt =>
       LET res == eval_in.agent_result
       IN /\ Omitted("quality_score") =>
                /\ res.quality_score = PyNum(0)
                /\ GateEvaluated => eval_out = PyBool(FALSE)
          /\ Omitted("medical_compliance") =>
                /\ res.medical_compliance = PyBool(TRUE)
                /\ (GateEvaluated /\ ~Omitted("quality_score")) =>
                       Truthy(eval_out)
          /\ Omitted("recommendations") => res.recommendations = PyList(0)
          /\ Omitted("next_agent_inputs") =>
                res.next_agent_inputs = PyDict(EmptyDict)

\* a result built from an output without medical_compliance passed its gate
\* with the compliance-required flag set
C36_Witness ==
    /\ GateEvaluated
    /\ medical_compliance_required
    /\ Omitted("medical_compliance")
    /\ Omitted("recommendations")
    /\ Omitted("next_agent_inputs")
    /\ Truthy(eval_out)

\* a result built from an output without quality_score failed its gate
C36_WitnessScore ==
    /\ GateEvaluated
    /\ Omitted("quality_score")
    /\ eval_in.agent_result.quality_score = PyNum(0)
    /\ eval_out = PyBool(FALSE)

====
